---- MODULE Spec2Model ----
(***************************************************************************)
(* A model of firewing's in-memory Firestore (MockFirestore): the document *)
(* store, its change ledgers and event channels, unbatched document        *)
(* writes, write batches and transactions.                                 *)
(*                                                                         *)
(* JavaScript is single threaded: an action of this model is one           *)
(* synchronous run of code between two `await wait()` boundaries (plus the *)
(* promise continuations that follow it without a timer in between).       *)
(* Every set/update/delete awaits wait() once, so every operation has a    *)
(* part that runs at the call and a part that runs after the timer.        *)
(***************************************************************************)
EXTENDS Integers, Sequences, FiniteSets, TLC

(***************************************************************************)
(* Bounds and input alphabets.                                             *)
(***************************************************************************)
MaxOps == 2
MaxDocCalls == 3
MaxCalls == 3
MaxWhere == 2
MaxOrder == 2
MaxCursors == 2
MaxChanges == 2
MaxEvaluations == 3

Collection == "messages"
Docs == {"m1", "m2"}

(***************************************************************************)
(* JavaScript values.  Every value is tagged with its kind so that values  *)
(* of different kinds can be compared.  An object is a function from keys  *)
(* to values; a key that is not in the domain is an absent property.       *)
(***************************************************************************)
Obj(f) == [k |-> "obj", v |-> f]
Num(n) == [k |-> "num", v |-> n]
Str(s) == [k |-> "str", v |-> s]
Undefined == [k |-> "undefined", v |-> 0]
Null == [k |-> "null", v |-> 0]
DeleteTransform == [k |-> "DeleteTransform", v |-> 0]
Arr(elements) == [k |-> "arr", v |-> elements]
\* FieldValue.arrayUnion(...elements) / arrayRemove(...elements)
ArrayUnion(elements) == [k |-> "arrayUnion", v |-> elements]
ArrayRemove(elements) == [k |-> "arrayRemove", v |-> elements]
FirestoreDeleted == Str("<deleted>")
LoadsForever == [k |-> "symbol", v |-> 0]

EmptyObject == <<>>
Put(obj, key, value) == [x \in DOMAIN obj \cup {key} |-> IF x = key THEN value ELSE obj[x]]
Remove(obj, key) == [x \in DOMAIN obj \ {key} |-> obj[x]]
Prop(obj, key) == IF key \in DOMAIN obj THEN obj[key] ELSE Undefined
Falsy(value) == value \in {Undefined, Null, Num(0), Str("")}
IsObject(value) == value.k = "obj"

\* An updateFieldPath that leaves emptied objects in place.
RECURSIVE C20_NoTrim(_, _, _, _)
C20_NoTrim(obj, fieldPath, value, convertSentinels) ==
    LET key == Head(fieldPath)
        rest == Tail(fieldPath)
    IN  IF Len(rest) > 0
        THEN LET cur == Prop(obj, key)
                 created == IF Falsy(cur) \/ cur \in convertSentinels
                            THEN Obj(EmptyObject) ELSE cur
             IN  IF IsObject(created)
                 THEN Put(obj, key, Obj(C20_NoTrim(created.v, rest, value, convertSentinels)))
                 ELSE obj
        ELSE IF value.k = "DeleteTransform"
             THEN Remove(obj, key)
             ELSE Put(obj, key, value)

\* [...(obj[key] || [])]: the elements of the array that the field holds,
\* none when the field is absent or falsy.  (A field that an array
\* transform is applied to holds an array, null or nothing.)
SpreadOrEmpty(cur) == IF Falsy(cur) THEN <<>> ELSE cur.v

(***************************************************************************)
(* updateFieldPath(obj, fieldPath, value, convertSentinels): obj is the    *)
(* object that the code mutates, the result is the object after the call.  *)
(* fieldPath is the path already split at its dots.                        *)
(***************************************************************************)
RECURSIVE updateFieldPath(_, _, _, _)
updateFieldPath(obj, fieldPath, value, convertSentinels) ==
    LET key == Head(fieldPath)
        rest == Tail(fieldPath)
    IN  IF Len(rest) > 0
        THEN LET cur == Prop(obj, key)
                 created == IF Falsy(cur) \/ cur \in convertSentinels
                            THEN Obj(EmptyObject) ELSE cur
                 child == IF IsObject(created)
                          THEN Obj(updateFieldPath(created.v, rest, value, convertSentinels))
                          ELSE created
             IN  IF IsObject(child) /\ DOMAIN child.v = {}
                 THEN Remove(obj, key)
                 ELSE Put(obj, key, child)
        ELSE IF value.k = "arrayUnion"
             THEN Put(obj, key, Arr(SpreadOrEmpty(Prop(obj, key)) \o value.v))
        ELSE IF value.k = "arrayRemove"
             THEN LET Kept(el) == \A i \in 1..Len(value.v) : value.v[i] # el
                  IN  Put(obj, key, Arr(SelectSeq(SpreadOrEmpty(Prop(obj, key)), Kept)))
        ELSE IF value.k = "DeleteTransform"
             THEN Remove(obj, key)
             ELSE Put(obj, key, value)

\* Whether updateFieldPath throws: the modules are ES modules (strict mode),
\* where creating a property on a primitive value is a TypeError.  A falsy
\* value on the way is replaced by {}, and `delete` on a primitive is allowed.
RECURSIVE updateFieldPathThrows(_, _, _)
updateFieldPathThrows(obj, fieldPath, value) ==
    LET key == Head(fieldPath)
        rest == Tail(fieldPath)
        cur == Prop(obj, key)
    IN  IF Len(rest) = 0 THEN FALSE
        ELSE IF Falsy(cur) THEN FALSE
        ELSE IF IsObject(cur) THEN updateFieldPathThrows(cur.v, rest, value)
        ELSE Len(rest) > 1 \/ value.k # "DeleteTransform"

RECURSIVE getFieldValue(_, _)
getFieldValue(data, fieldPath) ==
    IF fieldPath = <<>> THEN data
    ELSE IF ~IsObject(data) \/ Head(fieldPath) \notin DOMAIN data.v THEN Undefined
    ELSE getFieldValue(data.v[Head(fieldPath)], Tail(fieldPath))

RECURSIVE isFieldValueMissing(_, _)
isFieldValueMissing(data, fieldPath) ==
    IF fieldPath = <<>> THEN FALSE
    ELSE IF Falsy(data) \/ ~IsObject(data) \/ Head(fieldPath) \notin DOMAIN data.v THEN TRUE
    ELSE isFieldValueMissing(data.v[Head(fieldPath)], Tail(fieldPath))

(***************************************************************************)
(* Document references and the operations of the input alphabet.           *)
(***************************************************************************)
DocRef(collectionPath, documentId) ==
    [collectionPath |-> collectionPath, documentId |-> documentId]
Refs == {DocRef(Collection, d) : d \in Docs}
\* The documents that the modelled transaction writes (it reads all of Refs).
TxRefs == {DocRef(Collection, "m1")}

\* The collection paths of the model that hold no slash, and what follows
\* the first slash in the path of a subcollection.
TopLevelPaths == {Collection, "elsewhere", "mutexLocks"}
Subcollection == "replies"
SubcollectionRests == {d \o "/" \o Subcollection : d \in Docs}

\* documentRef.collection(subcollectionPath): the path of the subcollection.
SubcollectionPath(documentRef, subcollectionPath) ==
    documentRef.collectionPath \o "/" \o documentRef.documentId \o "/" \o subcollectionPath

\* documentRef.path.replace("/", ".") split at its dots: the path of the
\* document inside the store's data and inside the change ledgers.  With a
\* string as its pattern, replace() replaces the first slash only: what
\* follows the first slash of the path is one key.
ChangePath(documentRef) ==
    IF documentRef.collectionPath \in TopLevelPaths
    THEN <<documentRef.collectionPath, documentRef.documentId>>
    ELSE LET split == CHOOSE pair \in TopLevelPaths \X SubcollectionRests :
                            pair[1] \o "/" \o pair[2] = documentRef.collectionPath
         IN  <<split[1], split[2] \o "/" \o documentRef.documentId>>

\* An update's argument is the list of its [fieldPath, change] entries.
Entries(seq) == [k |-> "entries", v |-> seq]

SetOp(ref) == [kind |-> "set", ref |-> ref, value |-> Obj([x \in {"a"} |-> Num(1)])]
UpdateOp(ref) == [kind |-> "update", ref |-> ref, value |-> Entries(<< <<(<<"b">>), Num(2)>> >>)]
DeleteOp(ref) == [kind |-> "delete", ref |-> ref, value |-> Null]
WriteOps == {SetOp(r) : r \in Refs} \cup {UpdateOp(r) : r \in Refs} \cup {DeleteOp(r) : r \in Refs}

InitialData ==
    { EmptyObject,
      [c \in {Collection} |-> Obj([d \in {"m1"} |-> Obj([x \in {"a"} |-> Num(1)])])] }

Batches == {"b1", "b2"}
Txs == {"t1"}
\* The runTransaction calls of two callers that increment a counter.
CounterTxs == {"t1", "t2"}
Writers == {"w1"}
BusWriters == {"w1", "w2"}
NoBatch == "none"
TxBatch(t) == IF t = "t1" THEN "b2" ELSE "b1"
UserBatches == {"b1"}

\* runWithFirestoreMutex: its callers, the transaction batch of each caller,
\* the lease document of getAutoId("messages") and what the callers run.
LeaseCallers == {"g1", "g2"}
LeaseBatch(g) == IF g = "g1" THEN "b1" ELSE "b2"
MutexId == "getAutoId:messages"
LeaseRef == DocRef("mutexLocks", MutexId)
\* tx.set(ref, { created: Date.now() }); the clock reading is not modelled.
LeaseOp == [kind |-> "set", ref |-> LeaseRef, value |-> Obj([x \in {"created"} |-> Num(1)])]
\* func is the body of getAutoId, or a function that awaits a timer and
\* then returns or throws.
\* Documents under ids of the auto-id form, written with set() or placed
\* with firestore.setData; a slot may hold the LoadsForever marker.
IdRefs == {DocRef(Collection, "message1"), DocRef(Collection, "message2")}
IdOps == {SetOp(r) : r \in IdRefs} \cup {DeleteOp(r) : r \in IdRefs}
SetDataTrees ==
    { EmptyObject,
      [c \in {Collection} |-> Obj([d \in {"message2"} |-> Obj([x \in {"a"} |-> Num(1)])])],
      [c \in {Collection} |->
          Obj([d \in {"message1", "message2"} |->
                  IF d = "message1" THEN LoadsForever ELSE Obj([x \in {"a"} |-> Num(1)])])] }

\* firestore.setData is called with a tree or without an argument.
SetDataInputs == {Obj(d) : d \in SetDataTrees} \cup {Undefined}

\* The documents, merge objects and updates that the awaiting caller uses.
Dab == Obj("a" :> Obj("b" :> Num(1) @@ "c" :> Num(2)))
Dfrom == Obj("text" :> Str("T") @@ "from" :> Obj("name" :> Obj("first" :> Str("N"))))
Da == Obj("a" :> Num(1))
DocValues == {Dab, Dfrom, Da, Obj(EmptyObject)}
DocInitialData ==
    {EmptyObject} \cup {[c \in {Collection} |-> Obj([d \in {"m1"} |-> v])] : v \in {Dab, Dfrom, Da}}
ClientRef == DocRef(Collection, "m1")
SetTo(ref, d) == [kind |-> "set", ref |-> ref, value |-> d]
MergeTo(ref, p) == [kind |-> "merge", ref |-> ref, value |-> p]
MergeFieldsTo(ref, p, mergeFields) ==
    [kind |-> "mergeFields", ref |-> ref,
     value |-> [k |-> "mergeFields", v |-> [data |-> p, mergeFields |-> mergeFields]]]
UpdateTo(ref, entries) == [kind |-> "update", ref |-> ref, value |-> Entries(entries)]
MergeValues ==
    { Obj("a" :> Obj("b" :> Num(5))),
      Obj("a" :> DeleteTransform),
      Obj("from" :> Obj("name" :> Obj("first" :> DeleteTransform))) }
MergeFieldsValue == Obj("a" :> Obj("b" :> Num(5) @@ "c" :> Num(9)) @@ "text" :> Str("U"))
MergeFieldsLists == { << <<"a", "b">> >>, << <<"text">>, <<"from", "name">> >> }
UpdateValues ==
    { << << <<"a", "b">>, Num(5) >> >>,
      << << <<"from", "name", "first">>, DeleteTransform >> >>,
      << << <<"text">>, Str("U") >> >> }
ClientOps ==
    {SetTo(ClientRef, d) : d \in DocValues}
      \cup {MergeTo(ClientRef, p) : p \in MergeValues}
      \cup {MergeFieldsTo(ClientRef, MergeFieldsValue, f) : f \in MergeFieldsLists}
      \cup {UpdateTo(ClientRef, e) : e \in UpdateValues}
      \cup {DeleteOp(ClientRef)}

\* The values of queries: arrays, field paths (a dotted string, kept as its
\* segments, or the FieldPath.documentId() sentinel) and clauses.
FieldName(segments) == [k |-> "string", segments |-> segments]
DocumentIdPath == [k |-> "FieldPath", segments |-> <<"__name__">>]
WhereClause(fieldPath, opStr, value) == [fieldPath |-> fieldPath, opStr |-> opStr, value |-> value]
OrderClause(fieldPath, direction) == [fieldPath |-> fieldPath, direction |-> direction]

\* The collections that queries are run on, and the clauses, cursors and
\* limits of the queries.  Much holds "n" (a number), None lacks it; "s" is
\* a string, "tags" an array.
N == FieldName(<<"n">>)
S == FieldName(<<"s">>)
Tags == FieldName(<<"tags">>)
QueryDoc(n, s) == Obj("n" :> n @@ "s" :> Str(s))
Tagged(n, s, tags) ==
    Obj("n" :> Num(n) @@ "s" :> Str(s) @@ "tags" :> Arr([i \in 1..Len(tags) |-> Str(tags[i])]))
Stored(documents) == [c \in {Collection} |-> Obj(documents)]
WhereInitialData ==
    { EmptyObject,
      Stored("m1" :> Tagged(1, "a", <<"x">>) @@ "m2" :> Tagged(2, "a", <<"x", "y">>)
                @@ "m3" :> QueryDoc(Num(1), "b") @@ "m4" :> Obj("s" :> Str("b"))),
      Stored("m1" :> Tagged(2, "b", <<"y">>) @@ "m2" :> Null @@ "m3" :> QueryDoc(Num(0), "a")) }
WhereClauses ==
    { WhereClause(N, "==", Num(1)), WhereClause(N, ">", Num(1)), WhereClause(N, ">=", Num(1)),
      WhereClause(N, "<", Num(2)), WhereClause(N, "<=", Num(0)),
      WhereClause(S, "==", Str("a")), WhereClause(S, ">", Str("a")),
      WhereClause(Tags, "array-contains", Str("x")),
      WhereClause(DocumentIdPath, "==", Str("m3")) }
UnsupportedClauses ==
    { WhereClause(N, "!=", Num(1)), WhereClause(S, "in", Arr(<<Str("b")>>)),
      WhereClause(Tags, "array-contains-any", Arr(<<Str("y")>>)) }

OrderInitialData ==
    { Stored("m1" :> QueryDoc(Num(1), "b") @@ "m2" :> QueryDoc(Num(2), "a")
                @@ "m3" :> QueryDoc(Num(1), "a") @@ "m4" :> Obj("s" :> Str("b"))),
      Stored("m1" :> QueryDoc(Num(2), "a") @@ "m2" :> QueryDoc(Null, "a")
                @@ "m3" :> QueryDoc(Num(0), "b")) }
OrderClauses == {OrderClause(f, d) : f \in {N, S}, d \in {"asc", "desc"}}
\* The values that cursors give for a field, of the type that the field holds.
OrderBounds == (N :> {Num(0), Num(1)}) @@ (S :> {Str(""), Str("a")})
BuildBounds == (N :> {Num(1)}) @@ (S :> {Str("a")})
\* The arguments of a cursor: values for the first order clauses.
CursorsFor(order, bounds) ==
    UNION { { Arr(values) : values \in { f \in [1..m -> UNION {bounds[x] : x \in DOMAIN bounds}] :
                                          \A i \in 1..m : f[i] \in bounds[order[i].fieldPath] } } :
            m \in 1..Len(order) }
Limits == {Num(0), Num(2)}
LastLimits == {Num(0), Num(2)}

\* The stores that onSnapshot is called on: also one whose collection is
\* the LoadsForever marker.  No store holds a document m5.
ListenInitialData == WhereInitialData \cup {[c \in {Collection} |-> LoadsForever]}
ListenRefs == {DocRef(Collection, d) : d \in {"m1", "m2", "m4", "m5"}}

\* Stores in which the data behind a reference is the LoadsForever marker
\* (the whole store, the collection, document m1), absent (no collection,
\* no document m1) or present (document m2).
PendingInitialData ==
    { LoadsForever,
      [c \in {Collection} |-> LoadsForever],
      Stored("m1" :> LoadsForever @@ "m2" :> QueryDoc(Num(1), "a")),
      EmptyObject,
      Stored("m2" :> QueryDoc(Num(1), "a")) }
PendingRefs == {DocRef(Collection, "m1"), DocRef(Collection, "m2")}
PendingWhere == {WhereClause(N, "==", Num(1)), WhereClause(S, "==", Str("b"))}
ElsewhereRef == DocRef("elsewhere", "e1")

\* Documents whose field "tags" is absent, null or an array, and the array
\* unions applied to it by update() and by set() with merge.
UnionInitialData ==
    { Stored("m1" :> Obj("s" :> Str("a"))),
      Stored("m1" :> Obj("tags" :> Null)),
      Stored("m1" :> Obj("tags" :> Arr(<<>>))),
      Stored("m1" :> Obj("tags" :> Arr(<<Str("x")>>))),
      Stored("m1" :> Obj("tags" :> Arr(<<Str("x"), Str("y")>>))) }
UnionOperands == {<<Str("x")>>, <<Str("z")>>, <<Str("y"), Str("z")>>, <<Str("z"), Str("z")>>}
UnionOps ==
    {UpdateTo(ClientRef, << << <<"tags">>, ArrayUnion(e) >> >>) : e \in UnionOperands}
      \cup {MergeTo(ClientRef, Obj("tags" :> ArrayUnion(e))) : e \in UnionOperands}

\* What firestore.setData is called with while a batch commits.
SuspendSetData == {Undefined, Obj([c \in {Collection} |-> Obj("m2" :> Da)])}

BuildInitialData ==
    { Stored("m1" :> QueryDoc(Num(1), "a") @@ "m2" :> QueryDoc(Num(2), "b")),
      Stored("m1" :> QueryDoc(Num(2), "a")) }
BuildWhere == {WhereClause(N, "==", Num(1)), WhereClause(S, "==", Str("b"))}
BuildOrder == {OrderClause(N, "asc"), OrderClause(S, "desc")}

FuncKinds == {"getAutoId", "returns", "throws"}
FuncResult == Str("R")
FuncError == Str("E")
\* Stores in which the first auto id of "messages" is free or taken.
LeaseInitialData ==
    { EmptyObject,
      [c \in {Collection} |-> Obj([d \in {"message1"} |-> Obj([x \in {"a"} |-> Num(1)])])] }

VARIABLES
    firestore,                  \* the MockFirestore instance and what its listeners saw
    currentlyExecutingBatchId,  \* static field of MockFirestoreWriteBatch
    nextBatchId,                \* static field of MockFirestoreWriteBatch
    batchMutex,                 \* holder of the lock on firestore.batchMutex
    batch,                      \* the MockFirestoreWriteBatch objects
    tx,                         \* the runTransaction calls
    writer,                     \* the unbatched set/update/delete calls
    caller,                     \* the direct calls of suspend/resumeChangeEvents
    lease,                      \* the runWithFirestoreMutex calls
    emulatorNextIds,            \* module-level Map of the ids vended by getNextEmulatorId
    nextIds,                    \* firestore.nextIds, the Map behind getNextId
    vended,                     \* what the calls of collection.doc() have returned
    reset,                      \* the calls of firestore.setData
    client,                     \* a caller that awaits one document operation after the other
    collectionRef,              \* the where and order arrays of the collection reference's params
    query,                      \* the query built last: its own params and isCountOnly
    answer,                     \* what the get() of a query resolved with
    listener,                   \* the onSnapshot call: what its handler was called with
    iterator                    \* the generator that iterateAllSnapshots(query) returned

leaseVars == <<lease, emulatorNextIds>>
idVars == <<nextIds, vended, reset>>
queryVars == <<collectionRef, query, answer, listener, iterator>>
vars == <<firestore, currentlyExecutingBatchId, nextBatchId, batchMutex, batch, tx, writer, caller,
          leaseVars, idVars, client, queryVars>>

(***************************************************************************)
(* MockFirestore.  The operators take the store and return the store after *)
(* the call.  onUpdate and onChange are what a listener of the 'update'    *)
(* and of the 'change' channel has recorded: the number of events and the  *)
(* arguments of the last one.                                              *)
(***************************************************************************)
NoUpdate == [count |-> 0, documentRef |-> Null, batchId |-> Null]
NoChange == [count |-> 0, diff |-> EmptyObject, data |-> EmptyObject]

MockFirestore(data) ==
    [ data |-> data,
      changes |-> EmptyObject,
      changesSinceLastEvent |-> EmptyObject,
      suspendingChangeEvents |-> FALSE,
      pendingChangeEvent |-> FALSE,
      onUpdate |-> NoUpdate,
      onChange |-> NoChange ]

updateFieldPathForChange(fs, fieldPath, value) ==
    [fs EXCEPT
        !.changes = updateFieldPath(@, fieldPath, value, {FirestoreDeleted}),
        !.changesSinceLastEvent = updateFieldPath(@, fieldPath, value, {FirestoreDeleted})]

emitChangeEvent(fs) ==
    [fs EXCEPT
        !.onChange = [count |-> @.count + 1, diff |-> fs.changesSinceLastEvent, data |-> fs.data],
        !.changesSinceLastEvent = EmptyObject]

suspendChangeEvents(fs) ==
    IF fs.suspendingChangeEvents
    THEN [threw |-> TRUE, fs |-> fs]
    ELSE [threw |-> FALSE, fs |-> [fs EXCEPT !.suspendingChangeEvents = TRUE]]

\* A resume that emits whether or not a change is pending.
C8_AlwaysFlushes(fs) ==
    IF ~fs.suspendingChangeEvents
    THEN [threw |-> TRUE, fs |-> fs]
    ELSE [threw |-> FALSE,
          fs |-> emitChangeEvent([fs EXCEPT !.suspendingChangeEvents = FALSE,
                                            !.pendingChangeEvent = FALSE])]

resumeChangeEvents(fs) ==
    IF ~fs.suspendingChangeEvents
    THEN [threw |-> TRUE, fs |-> fs]
    ELSE [threw |-> FALSE,
          fs |-> IF fs.pendingChangeEvent
                 THEN emitChangeEvent([fs EXCEPT !.suspendingChangeEvents = FALSE,
                                                 !.pendingChangeEvent = FALSE])
                 ELSE [fs EXCEPT !.suspendingChangeEvents = FALSE]]

\* A getCollectionData that looks the collection up in whatever the data is.
C31_LooksUpMarker(fs, collectionPath) == Prop(fs.data, collectionPath)

getCollectionData(fs, collectionPath) ==
    IF fs.data = LoadsForever THEN LoadsForever ELSE Prop(fs.data, collectionPath)

\* MockDocumentReference.getData: Null when the collection or the document is absent.
getData(fs, documentRef) ==
    LET collection == getCollectionData(fs, documentRef.collectionPath)
    IN  IF collection = LoadsForever THEN LoadsForever
        ELSE IF Falsy(collection) THEN Null
        ELSE LET doc == Prop(collection.v, documentRef.documentId)
             IN  IF Falsy(doc) THEN Null ELSE doc

exists(fs, documentRef) == getData(fs, documentRef) # Null

\* A writeDocument that emits 'change' also while events are suspended.
C3_AlwaysEmits(fs, documentRef, data) ==
    LET newData == updateFieldPath(fs.data, ChangePath(documentRef),
                                   IF data = Null THEN DeleteTransform ELSE data, {})
    IN  emitChangeEvent([fs EXCEPT
                            !.data = newData,
                            !.onUpdate = [count |-> @.count + 1,
                                          documentRef |-> documentRef,
                                          batchId |-> currentlyExecutingBatchId]])

writeDocument(fs, documentRef, data) ==
    LET newData == updateFieldPath(fs.data, ChangePath(documentRef),
                                   IF data = Null THEN DeleteTransform ELSE data, {})
        written == [fs EXCEPT
                      !.data = newData,
                      !.onUpdate = [count |-> @.count + 1,
                                    documentRef |-> documentRef,
                                    batchId |-> currentlyExecutingBatchId]]
    IN  IF fs.suspendingChangeEvents
        THEN [written EXCEPT !.pendingChangeEvent = TRUE]
        ELSE emitChangeEvent(written)

(***************************************************************************)
(* MockDocumentReference.  An operation has the part that runs at the call *)
(* (up to its `await wait()`) and the part that runs after the timer.      *)
(***************************************************************************)

\* A plain set that keeps the fields of the old document that newData lacks.
C17_KeepsOldFields(fs, documentRef, newData) ==
    LET old == IF IsObject(getData(fs, documentRef)) THEN getData(fs, documentRef).v ELSE EmptyObject
        kept == Obj([x \in DOMAIN old \cup DOMAIN newData.v |->
                        IF x \in DOMAIN newData.v THEN newData.v[x] ELSE old[x]])
    IN  writeDocument(updateFieldPathForChange(fs, ChangePath(documentRef), kept),
                      documentRef, kept)

\* setData without merge options (the plain branch) followed by writeDocument.
setData(fs, documentRef, newData) ==
    LET changePath == ChangePath(documentRef)
        tracked == updateFieldPathForChange(fs, changePath, newData)
        \* changes[changePath] indexes the ledger with the dotted path as one
        \* key, which the nested ledger never has.
        retracked == IF DOMAIN newData.v = {}
                     THEN updateFieldPathForChange(tracked, changePath, Obj(EmptyObject))
                     ELSE tracked
    IN  writeDocument(retracked, documentRef, newData)

\* The loop of update() over Object.entries(updateData), from entry i on:
\* st.finalData is the copy being built, st.fs the store with its ledgers.
RECURSIVE applyEntries(_, _, _, _)
applyEntries(st, documentRef, entries, i) ==
    IF i > Len(entries) THEN st
    ELSE IF updateFieldPathThrows(st.finalData.v, entries[i][1], entries[i][2])
    THEN [st EXCEPT !.error = "TypeError"]
    ELSE LET fieldPath == entries[i][1]
             change == entries[i][2]
             finalData == Obj(updateFieldPath(st.finalData.v, fieldPath, change, {}))
             changePath == ChangePath(documentRef) \o fieldPath
             resolvedValue == getFieldValue(finalData, fieldPath)
             tracked == updateFieldPathForChange(st.fs, changePath,
                            IF isFieldValueMissing(finalData, fieldPath)
                            THEN FirestoreDeleted ELSE resolvedValue)
         IN  applyEntries([finalData |-> finalData, fs |-> tracked, error |-> "none"],
                          documentRef, entries, i + 1)

\* flattenObject(data): the [fieldPath, value] pairs of the leaves of data;
\* an empty object has no leaves.
RECURSIVE flattenObject(_, _)
flattenObject(obj, path) ==
    UNION { IF IsObject(obj[key])
            THEN flattenObject(obj[key].v, Append(path, key))
            ELSE { <<Append(path, key), obj[key]>> } : key \in DOMAIN obj }

\* The pairs as Object.entries lists them.  (The model's objects do not
\* keep the insertion order of their keys; one order is fixed here.)
RECURSIVE ObjectEntries(_)
ObjectEntries(pairs) ==
    IF pairs = {} THEN <<>>
    ELSE LET first == CHOOSE e \in pairs : TRUE
         IN  <<first>> \o ObjectEntries(pairs \ {first})

\* getDataOrDefault()
getDataOrDefault(fs, documentRef) ==
    LET data == getData(fs, documentRef)
    IN  IF data = Null \/ data = LoadsForever THEN Obj(EmptyObject) ELSE data

\* The end of setData after a merge branch: an empty result is tracked as
\* {} (changes[changePath] never finds the nested entry), then written.
WriteMerged(st, documentRef) ==
    LET retracked == IF DOMAIN st.finalData.v = {}
                     THEN updateFieldPathForChange(st.fs, ChangePath(documentRef), Obj(EmptyObject))
                     ELSE st.fs
    IN  IF st.error # "none" THEN [error |-> st.error, fs |-> st.fs]
        ELSE [error |-> "none", fs |-> writeDocument(retracked, documentRef, st.finalData)]

\* setData(newData, {merge: true})
setDataMerge(fs, documentRef, newData) ==
    WriteMerged(applyEntries([finalData |-> getDataOrDefault(fs, documentRef), fs |-> fs,
                              error |-> "none"],
                             documentRef, ObjectEntries(flattenObject(newData.v, <<>>)), 1),
                documentRef)

\* setData(newData, {mergeFields})
setDataMergeFields(fs, documentRef, newData, mergeFields) ==
    WriteMerged(applyEntries([finalData |-> getDataOrDefault(fs, documentRef), fs |-> fs,
                              error |-> "none"],
                             documentRef,
                             [i \in 1..Len(mergeFields) |->
                                 <<mergeFields[i], getFieldValue(newData, mergeFields[i])>>], 1),
                documentRef)

\* A get() that resolves with the snapshot of an absent document.
C16_ReadsNothing(fs, documentRef) ==
    [k |-> "snapshot",
     v |-> [pending |-> FALSE, id |-> documentRef.documentId, exists |-> FALSE, data |-> Null]]

\* documentRef.get(): the snapshot it resolves with; the data is read at the
\* call.  On the LoadsForever marker get() never settles.
get(fs, documentRef) ==
    LET data == getData(fs, documentRef)
    IN  [k |-> "snapshot",
         v |-> [pending |-> data = LoadsForever,
                id |-> documentRef.documentId,
                exists |-> ~Falsy(data),
                data |-> data]]

\* An update() that does not check for the document.
C15_NoCheck(fs, op) == FALSE

\* What the call of an operation decides before its wait(): update() checks
\* exists() at the call and throws after the wait.
MissingAtCall(fs, op) == op.kind = "update" /\ ~exists(fs, op.ref)

\* A delete() that records its marker without writing the absence.
C21_KeepsDocument(fs, documentRef) ==
    updateFieldPathForChange(fs, ChangePath(documentRef), FirestoreDeleted)

\* delete(), after its wait(): the absence is written, then the marker
\* is recorded at the document's path.
delete(fs, documentRef) ==
    updateFieldPathForChange(writeDocument(fs, documentRef, Null),
                             ChangePath(documentRef), FirestoreDeleted)

\* The part of set/update/delete after the wait: the store afterwards and
\* the error thrown ("none" when the operation resolves).
OperationResume(fs, op, missingAtCall) ==
    CASE op.kind = "set" ->
            [error |-> "none", fs |-> setData(fs, op.ref, op.value)]
      [] op.kind = "update" ->
            IF missingAtCall THEN [error |-> "missing-document", fs |-> fs]
            \* merge(null) is null: the first obj[key] of updateFieldPath throws.
            ELSE IF getData(fs, op.ref) = Null /\ Len(op.value.v) > 0
                 THEN [error |-> "TypeError", fs |-> fs]
            ELSE LET start == IF getData(fs, op.ref) = Null THEN Null ELSE getData(fs, op.ref)
                     st == applyEntries([finalData |-> start, fs |-> fs, error |-> "none"],
                                        op.ref, op.value.v, 1)
                 IN  IF st.error # "none" THEN [error |-> st.error, fs |-> st.fs]
                     ELSE [error |-> "none", fs |-> writeDocument(st.fs, op.ref, st.finalData)]
      [] op.kind = "merge" ->
            setDataMerge(fs, op.ref, op.value)
      [] op.kind = "mergeFields" ->
            setDataMergeFields(fs, op.ref, op.value.v.data, op.value.v.mergeFields)
      [] op.kind = "delete" ->
            [error |-> "none", fs |-> delete(fs, op.ref)]

(***************************************************************************)
(* MockQuery.  A where clause is [fieldPath, opStr, value], an order       *)
(* clause [fieldPath, direction]; a field path is a dotted string, kept as *)
(* its segments, or the FieldPath.documentId() sentinel.  A cursor is the  *)
(* array of the values it was called with.  The ids of a collection are    *)
(* listed in the order of QueryIds, the order in which the documents were  *)
(* put into the data.                                                      *)
(***************************************************************************)

\* The ids of the documents of a collection that is read in pages.
PageIds ==
    << "d01", "d02", "d03", "d04", "d05", "d06", "d07", "d08", "d09", "d10", "d11",
       "d12", "d13", "d14", "d15", "d16", "d17", "d18", "d19", "d20", "d21", "d22" >>
\* The key under which a document of the subcollection of m1 is stored.
SubKeys == <<"r1", "m1/replies/r1">>
QueryIds == <<"m1", "m2", "m3", "m4">> \o PageIds \o SubKeys
\* The strings of the model, in the order of < and of localeCompare.
StringOrder == <<"", "a", "b", "m1", "m2", "m3", "m4">>
Rank(string) == CHOOSE i \in 1..Len(StringOrder) : StringOrder[i] = string

\* a < b and a <= b of JavaScript, on two numbers or on two strings.
LessThan(a, b) ==
    IF a.k = "num" /\ b.k = "num" THEN a.v < b.v
    ELSE IF a.k = "str" /\ b.k = "str" THEN Rank(a.v) < Rank(b.v)
    ELSE FALSE
LessOrEqual(a, b) == LessThan(a, b) \/ (a.k = b.k /\ a.k \in {"num", "str"} /\ a = b)

\* The switch on opStr: FALSE where the code returns false.  An operator
\* without a case runs into the default, which only logs.  (A field tested
\* with array-contains holds an array.)
OperatorTest(opStr, foundValue, value) ==
    CASE opStr = "array-contains" ->
            /\ foundValue.k = "arr"
            /\ \E i \in 1..Len(foundValue.v) : foundValue.v[i] = value
      [] opStr = "==" -> foundValue = value
      [] opStr = ">" -> ~LessOrEqual(foundValue, value)
      [] opStr = ">=" -> ~LessThan(foundValue, value)
      [] opStr = "<" -> ~LessOrEqual(value, foundValue)
      [] opStr = "<=" -> ~LessThan(value, foundValue)
      [] OTHER -> TRUE

\* foundValue of a clause: the document's id for the documentId() sentinel.
FoundValue(clause, id, data) ==
    LET isDocumentId == clause.fieldPath.k = "FieldPath"
                            /\ clause.fieldPath.segments = <<"__name__">>
    IN  IF isDocumentId THEN Str(id) ELSE getFieldValue(data, clause.fieldPath.segments)

\* A loop body that tests nothing for an operator without a case.
C28_SkipsClause(clause, id, data) ==
    \/ clause.opStr \notin {"array-contains", "==", ">", ">=", "<", "<="}
    \/ /\ FoundValue(clause, id, data) # Undefined
       /\ OperatorTest(clause.opStr, FoundValue(clause, id, data), clause.value)

\* One pass of the loop of passesWhereTests: FALSE where the code returns
\* false.
WhereTest(clause, id, data) ==
    LET foundValue == FoundValue(clause, id, data)
    IN  IF foundValue = Undefined THEN FALSE
        ELSE OperatorTest(clause.opStr, foundValue, clause.value)

\* A filter that lets a document pass when its last clause holds.
C27_LastClauseOnly(where, id, data) ==
    where = <<>> \/ WhereTest(where[Len(where)], id, data)

passesWhereTests(where, id, data) ==
    \A i \in 1..Len(where) : WhereTest(where[i], id, data)

IsNullish(value) == value \in {Null, Undefined}

\* NaN, the difference of two values that are not both numbers, encoded as
\* a number that no difference of the stored numbers reaches.  NaN > 0,
\* NaN >= 0, NaN < 0 and NaN <= 0 are false, and Array.prototype.sort takes
\* a comparator result of NaN as 0.
NaN == 1000000
Positive(result) == result # NaN /\ result > 0
Negative(result) == result # NaN /\ result < 0
IsZero(result) == result # NaN /\ result = 0

compareValues(valueA, valueB, direction) ==
    LET result ==
            IF IsNullish(valueA) /\ ~IsNullish(valueB) THEN -1
            ELSE IF IsNullish(valueB) /\ ~IsNullish(valueA) THEN 1
            ELSE IF valueA = valueB THEN 0
            ELSE IF IsNullish(valueA) /\ IsNullish(valueB) THEN 0
            ELSE IF valueA.k = "str" /\ valueB.k = "str"
                 THEN (IF Rank(valueA.v) < Rank(valueB.v) THEN -1 ELSE 1)
            ELSE IF valueA.k = "num" /\ valueB.k = "num" THEN valueA.v - valueB.v
            ELSE NaN
    IN  IF direction = "asc" \/ result = NaN THEN result ELSE -result

compare(dataA, dataB, fieldPath, direction) ==
    compareValues(getFieldValue(dataA, fieldPath.segments),
                  getFieldValue(dataB, fieldPath.segments), direction)

\* entries.sort(...): Array.prototype.sort is stable.  The entry goes behind
\* the entries that do not sort after it.
RECURSIVE Inserted(_, _, _)
Inserted(sorted, entry, clause) ==
    IF sorted = <<>> THEN <<entry>>
    ELSE IF ~Positive(compare(Head(sorted)[2], entry[2], clause.fieldPath, clause.direction))
         THEN <<Head(sorted)>> \o Inserted(Tail(sorted), entry, clause)
         ELSE <<entry>> \o sorted

RECURSIVE sort(_, _)
sort(entries, clause) ==
    IF entries = <<>> THEN <<>>
    ELSE Inserted(sort(SubSeq(entries, 1, Len(entries) - 1), clause),
                  entries[Len(entries)], clause)

\* this.params.startAt?.[i]
CursorAt(cursor, i) ==
    IF cursor = Undefined THEN Undefined
    ELSE IF i > Len(cursor.v) THEN Undefined
    ELSE cursor.v[i]

\* The callback of the filter that applies the cursors of order clause i.
WithinCursors(params, i, data) ==
    LET direction == params.order[i].direction
        startAt == CursorAt(params.startAt, i)
        startAfter == CursorAt(params.startAfter, i)
        endAt == CursorAt(params.endAt, i)
        endBefore == CursorAt(params.endBefore, i)
        value == getFieldValue(data, params.order[i].fieldPath.segments)
        \* The bound that the chain of tests picks, and its test of the result.
        bound == IF ~Falsy(startAt) THEN startAt
                 ELSE IF ~Falsy(startAfter) THEN startAfter
                 ELSE IF ~Falsy(endAt) THEN endAt
                 ELSE endBefore
        Test(result) ==
            IF ~Falsy(startAt) THEN Positive(result) \/ IsZero(result)
            ELSE IF ~Falsy(startAfter) THEN Positive(result)
            ELSE IF ~Falsy(endAt) THEN Negative(result) \/ IsZero(result)
            ELSE IF ~Falsy(endBefore) THEN Negative(result)
            ELSE TRUE
    IN  Test(compareValues(value, bound, direction))

\* A loop over the order clauses from the first to the last.
C25_DeclaredOrder(order) == [j \in 1..Len(order) |-> j]

\* Object.entries(this.params.order).reverse(): the indexes of the clauses,
\* the last one first.
ReversedOrder(order) == [j \in 1..Len(order) |-> Len(order) + 1 - j]

\* The loop over the order clauses: sort by the clause, then apply its cursors.
RECURSIVE SortedAndBounded(_, _, _)
SortedAndBounded(entries, params, indexes) ==
    IF indexes = <<>> THEN entries
    ELSE LET i == Head(indexes)
             Within(entry) == WithinCursors(params, i, entry[2])
         IN  SortedAndBounded(SelectSeq(sort(entries, params.order[i]), Within),
                              params, Tail(indexes))

\* entries.slice(0, limit) / entries.slice(-limitToLast)
sliced(entries, params) ==
    IF ~Falsy(params.limit)
    THEN SubSeq(entries, 1, IF params.limit.v < Len(entries) THEN params.limit.v ELSE Len(entries))
    ELSE IF ~Falsy(params.limitToLast)
    THEN SubSeq(entries,
                IF params.limitToLast.v < Len(entries)
                THEN Len(entries) - params.limitToLast.v + 1 ELSE 1,
                Len(entries))
    ELSE entries

\* Object.entries(collection || {})
CollectionEntries(collection) ==
    IF Falsy(collection) THEN <<>>
    ELSE LET Present(id) == id \in DOMAIN collection.v
             ids == SelectSeq(QueryIds, Present)
         IN  [j \in 1..Len(ids) |-> <<ids[j], collection.v[ids[j]]>>]

\* MockQuery.data(): LoadsForever, or the snapshots [id, data] of the result.
QueryData(fs, collectionPath, params) ==
    LET collection == getCollectionData(fs, collectionPath)
        Passes(entry) == entry[2] # Null /\ passesWhereTests(params.where, entry[1], entry[2])
        entries == SelectSeq(CollectionEntries(collection), Passes)
        bounded == SortedAndBounded(entries, params, ReversedOrder(params.order))
        Snapshots(slice) ==
            Arr([j \in 1..Len(slice) |-> [id |-> slice[j][1], data |-> slice[j][2]]])
    IN  IF collection = LoadsForever THEN LoadsForever
        ELSE Snapshots(sliced(bounded, params))


(***************************************************************************)
(* MockFirestoreWriteBatch.                                                *)
(*   pc: "none" (not constructed), "open" (operations are registered),     *)
(*       "waiting" (commit called, runWithMutex waits for the lock),       *)
(*       "running" (operations[index] was called and awaits its wait()),   *)
(*       "committed" / "rejected" (commit settled, with error).            *)
(* emitted counts the 'change' events emitted by code of this commit,      *)
(* windowWrites the document writes made while it held the lock, foreign   *)
(* tells whether one of them was made by somebody else, threwAt is the     *)
(* index of the operation that threw (0: none), start is the store's data  *)
(* when the running commit took the lock.                                  *)
(***************************************************************************)
BatchId(n) == [k |-> "batch", v |-> n]

UnusedBatch ==
    [ pc |-> "none", batchId |-> Null, operations |-> <<>>, index |-> 0,
      missing |-> FALSE, error |-> "none",
      emitted |-> 0, windowWrites |-> 0, foreign |-> FALSE, threwAt |-> 0,
      start |-> EmptyObject ]

UnusedTx ==
    [ pc |-> "none", preventReads |-> FALSE, result |-> Null, value |-> Null, error |-> "none",
      lastGet |-> [ref |-> Null, threw |-> FALSE, staged |-> 0], read |-> Null ]

UnusedWriter == [pc |-> "idle", op |-> Null, missing |-> FALSE, error |-> "none"]

\* The calls of collection.doc() without an argument: how many, the id of
\* the last one, the ids returned since the last firestore.setData, whether
\* the last id had been returned before in that period, and whether it
\* named a document of the collection at the call.
NoneVended == [calls |-> 0, id |-> Null, ids |-> {}, again |-> FALSE, taken |-> FALSE]

\* The calls of firestore.setData: how many, and the argument of the last.
NoReset == [calls |-> 0, newData |-> Null]

\* The awaiting caller: pc is "idle" or "waiting" (its operation awaits
\* wait()), calls counts its operations, op is the operation called last,
\* missing what update() found at the call, error how the last operation
\* settled, last the operation that settled last and snapshot what the
\* last get() resolved with; existed tells whether the document of the last
\* operation existed when the operation was applied.
NewClient ==
    [ pc |-> "idle", calls |-> 0, op |-> Null, missing |-> FALSE, error |-> "none",
      last |-> Null, existed |-> FALSE, snapshot |-> Null ]

\* The last direct call of suspendChangeEvents / resumeChangeEvents: tick
\* flips at every call, mark is the number of document writes at the last
\* successful suspend, writes and emitted are the writes made during the
\* suspension that a resume ended and the 'change' events the call emitted.
NoCall == [tick |-> 0, call |-> "none", threw |-> FALSE, mark |-> 0, writes |-> 0, emitted |-> 0]

Results == {Str("X"), Str("Y")}

\* A call of runWithFirestoreMutex(id, func):
\*   pc: "idle", "tx" (updateFunction of tryAcquireLease has run),
\*       "acquiring" (runTransaction awaits the commit), "blocked" (lease not
\*       acquired, waitForFirestore pending), "func" (func awaits its timer),
\*       "releasing" (releaseLease awaits the delete), "done", "failed".
\* leased is what tryAcquireLease returns, outcome and result are how func
\* settled, n is the counter value behind a vended id, timer tells whether
\* the timeout of a pending waitForFirestore is still armed.
UnusedLease ==
    [ pc |-> "idle", kind |-> "none", leased |-> FALSE,
      outcome |-> "none", result |-> Null, n |-> 0, timer |-> FALSE ]

\* new MockQuery(firestore, collectionRef, params = { where: [], order: [] }):
\* the two arrays are created once, by firestore.collection(path).  Every
\* builder copies the params with { ...this.params }, which copies the
\* references to the two arrays and the values of the other fields.
NoParams == [where |-> <<>>, order |-> <<>>]
\* The params of a query apart from the two arrays, and its isCountOnly.
NewQuery ==
    [ limit |-> Undefined, limitToLast |-> Undefined, startAt |-> Undefined,
      startAfter |-> Undefined, endAt |-> Undefined, endBefore |-> Undefined,
      isCountOnly |-> FALSE ]
\* No get() was called.  After a call, target is the reference it was
\* called on, got tells whether its promise resolved and result is what it
\* resolved with, or Awaiting while get() awaits waitForever().
NoAnswer ==
    [got |-> FALSE, result |-> Null, target |-> Null, inputs |-> Null, count |-> 0, again |-> FALSE]
Awaiting == [k |-> "waitForever", v |-> 0]
\* onSnapshot has not been called: no handler, no call of it.
NoListener == [subscribed |-> FALSE, target |-> Null, calls |-> 0, snapshot |-> Null]

\* Nothing has been called yet.
\* The generator of iterateAllSnapshots(query):
\*   pc: "none" (not called), "fetch" (awaits nextQuery.get()), "yield" (in
\*       the loop over querySnapshot.docs, or behind it), "done" (returned).
\* docs is querySnapshot.docs, index the number of them that were yielded,
\* yielded the ids of all documents yielded so far, pages the number of
\* get() calls.
NoIterator ==
    [ pc |-> "none", lastDoc |-> Null, pageSize |-> 0, docs |-> <<>>, index |-> 0,
      yielded |-> <<>>, pages |-> 0 ]

Idle ==
    /\ currentlyExecutingBatchId = Null
    /\ nextBatchId = 1
    /\ batchMutex = "free"
    /\ batch = [b \in Batches |-> UnusedBatch]
    /\ tx = [t \in CounterTxs |-> UnusedTx]
    /\ writer = [w \in BusWriters |-> UnusedWriter]
    /\ caller = NoCall
    /\ lease = [g \in LeaseCallers |-> UnusedLease]
    /\ emulatorNextIds = EmptyObject
    /\ nextIds = EmptyObject
    /\ vended = NoneVended
    /\ reset = NoReset
    /\ client = NewClient
    /\ collectionRef = NoParams
    /\ query = NewQuery
    /\ answer = NoAnswer
    /\ listener = NoListener
    /\ iterator = NoIterator

Init ==
    /\ firestore \in {MockFirestore(d) : d \in InitialData}
    /\ Idle

\* new MockFirestoreWriteBatch(firestore)
Constructed(b) ==
    /\ batch' = [batch EXCEPT ![b] = [UnusedBatch EXCEPT !.pc = "open",
                                                         !.batchId = BatchId(nextBatchId)]]
    /\ nextBatchId' = nextBatchId + 1

\* firestore.batch()
Batch(b) ==
    /\ b \in UserBatches
    /\ batch[b].pc = "none"
    /\ Constructed(b)
    /\ UNCHANGED <<firestore, currentlyExecutingBatchId, batchMutex, tx, writer>>

\* A registration that runs the operation at once instead of deferring it.
C7_Eager(fs, op) == OperationResume(fs, op, MissingAtCall(fs, op)).fs

\* The store after batch.set/update/delete has pushed its closure.
StoreAfterRegister(fs, op) == fs

Register(b, op) ==
    /\ batch[b].pc = "open"
    /\ Len(batch[b].operations) < MaxOps
    /\ batch' = [batch EXCEPT ![b].operations = Append(@, op)]
    /\ firestore' = StoreAfterRegister(firestore, op)

BatchSet(b, ref) ==
    /\ b \in UserBatches
    /\ Register(b, SetOp(ref))
    /\ UNCHANGED <<currentlyExecutingBatchId, nextBatchId, batchMutex, tx, writer>>

BatchUpdate(b, ref) ==
    /\ b \in UserBatches
    /\ Register(b, UpdateOp(ref))
    /\ UNCHANGED <<currentlyExecutingBatchId, nextBatchId, batchMutex, tx, writer>>

BatchDelete(b, ref) ==
    /\ b \in UserBatches
    /\ Register(b, DeleteOp(ref))
    /\ UNCHANGED <<currentlyExecutingBatchId, nextBatchId, batchMutex, tx, writer>>

(***************************************************************************)
(* commit().  runWithMutex(firestore.batchMutex, func) runs func once the  *)
(* lock is free and releases it when func has settled.                     *)
(***************************************************************************)
\* A commit that does not take the lock.
C1_NoLock(mutex) == TRUE

LockIsFree(mutex) == mutex = "free"

\* A loop that runs the operations from the last to the first.
C2_Reversed(operations, i) == operations[Len(operations) - i + 1]

\* The operation that the for-loop of commit() runs as its i-th.
OperationAt(operations, i) == operations[i]

\* A loop that swallows the error of an operation and goes on.
C4_Swallows(error) == TRUE

\* The for-loop goes on to the next operation only when `await operation()`
\* did not throw.
LoopContinues(error) == error = "none"

\* A runTransaction that does not await the commit before it returns.
C6_NotAwaited(t) == "resolved"

\* runTransaction after `await updateFunction(tx)`: it awaits the commit.
PcAfterUpdateFunction(t) == "committing"

\* The promise of runTransaction once the commit of its batch has settled.
TxSettled(txs, b, error) ==
    [t \in CounterTxs |->
        IF TxBatch(t) = b /\ txs[t].pc = "committing"
        THEN [txs[t] EXCEPT !.pc = IF error = "none" THEN "resolved" ELSE "rejected",
                            !.value = IF error = "none" THEN txs[t].result ELSE Null,
                            !.error = error]
        ELSE txs[t]]

\* The finally block of commit(), the release of the lock and the settling
\* of commit()'s promise; fs is the store when the try block is left.
Finally(b, txs, fs, error, wrote) ==
    LET Settle(r, finalError) ==
            /\ firestore' = r.fs
            /\ currentlyExecutingBatchId' = Null
            /\ batchMutex' = "free"
            /\ batch' = [batch EXCEPT ![b] =
                    [@ EXCEPT !.pc = IF finalError = "none" THEN "committed" ELSE "rejected",
                              !.error = finalError,
                              !.threwAt = IF error \in {"none", "already-suspended"} THEN @
                                          ELSE batch[b].index,
                              !.start = EmptyObject,
                              !.windowWrites = @ + wrote,
                              !.emitted = @ + (r.fs.onChange.count - firestore.onChange.count)]]
            /\ tx' = TxSettled(txs, b, finalError)
        Resumed(r) == Settle(r, IF r.threw THEN "not-suspended" ELSE error)
    IN  Resumed(resumeChangeEvents(fs))

\* func of commit() from its start to the first wait(); txs are the
\* transactions at the call.
Enter(b, txs) ==
    LET s == suspendChangeEvents(firestore)
        ops == batch[b].operations
    IN  IF s.threw THEN Finally(b, txs, firestore, "already-suspended", 0)
        ELSE IF Len(ops) = 0 THEN Finally(b, txs, s.fs, "none", 0)
        ELSE /\ firestore' = s.fs
             /\ currentlyExecutingBatchId' = batch[b].batchId
             /\ batchMutex' = b
             /\ batch' = [batch EXCEPT ![b] =
                     [@ EXCEPT !.pc = "running", !.index = 1,
                               !.missing = MissingAtCall(s.fs, OperationAt(ops, 1)),
                               !.start = firestore.data]]
             /\ tx' = txs

\* batch.commit(), on a batch of the user
Commit(b) ==
    /\ b \in UserBatches
    /\ batch[b].pc = "open"
    /\ IF LockIsFree(batchMutex)
       THEN Enter(b, tx)
       ELSE /\ batch' = [batch EXCEPT ![b].pc = "waiting"]
            /\ UNCHANGED <<firestore, currentlyExecutingBatchId, batchMutex, tx>>
    /\ UNCHANGED <<nextBatchId, writer>>

\* runWithMutex gets the lock for a commit that waited.
CommitEnter(b) ==
    /\ batch[b].pc = "waiting"
    /\ LockIsFree(batchMutex)
    /\ Enter(b, tx)
    /\ UNCHANGED <<nextBatchId, writer>>

\* The timer of the running operation fires: the operation finishes, and the
\* loop calls the next one or leaves through finally.
CommitStep(b) ==
    /\ batch[b].pc = "running"
    /\ LET ops == batch[b].operations
           i == batch[b].index
           Loop(r, wrote) ==
               IF LoopContinues(r.error) /\ i < Len(ops)
               THEN /\ firestore' = r.fs
                    /\ batch' = [batch EXCEPT ![b] =
                            [@ EXCEPT !.index = i + 1,
                                      !.missing = MissingAtCall(r.fs, OperationAt(ops, i + 1)),
                                      !.threwAt = IF r.error = "none" \/ @ > 0 THEN @ ELSE i,
                                      !.windowWrites = @ + wrote,
                                      !.emitted = @ + (r.fs.onChange.count - firestore.onChange.count)]]
                    /\ UNCHANGED <<currentlyExecutingBatchId, batchMutex, tx>>
               ELSE Finally(b, tx, r.fs, r.error, wrote)
           Resumed(r) == Loop(r, r.fs.onUpdate.count - firestore.onUpdate.count)
       IN  Resumed(OperationResume(firestore, OperationAt(ops, i), batch[b].missing))
    /\ UNCHANGED <<nextBatchId, writer>>

(***************************************************************************)
(* MockFirestoreTransaction and runTransaction.                            *)
(*   pc: "none", "fn" (updateFunction runs), "committing" (runTransaction  *)
(*       awaits tx.batch.commit()), "resolved" / "rejected".               *)
(* result is what updateFunction returned, value what runTransaction       *)
(* resolved with; lastGet is the last tx.get: its reference, whether it    *)
(* threw and the number of writes staged before it; read is the data of    *)
(* the snapshot that the last tx.get resolved with; error is what          *)
(* runTransaction rejected with.                                           *)
(***************************************************************************)
RunTransaction(t) ==
    /\ tx[t].pc = "none"
    /\ batch[TxBatch(t)].pc = "none"
    /\ Constructed(TxBatch(t))
    /\ tx' = [tx EXCEPT ![t] = [UnusedTx EXCEPT !.pc = "fn"]]
    /\ UNCHANGED <<firestore, currentlyExecutingBatchId, batchMutex, writer>>

\* An updateFunction whose error is dropped: the transaction goes on.
C39_GoesOn(txn, error) == [txn EXCEPT !.error = error]

\* `await updateFunction(tx)` throws: the error leaves runTransaction, which
\* never reaches tx.batch.commit().
Thrown(txn, error) == [txn EXCEPT !.pc = "rejected", !.error = error]

\* documentRef.get(), called by tx.get: the data is read at the call.
TxRead(fs, ref) == getData(fs, ref)

\* tx.get(ref).  It throws once a write was staged; updateFunction may let
\* the error through (runTransaction rejects, nothing is committed) or
\* catch it and go on.
TxGet(t, ref, caught) ==
    /\ tx[t].pc = "fn"
    /\ LET threw == tx[t].preventReads
           after == [tx[t] EXCEPT
                        !.lastGet = [ref |-> ref, threw |-> threw,
                                     staged |-> Len(batch[TxBatch(t)].operations)],
                        !.read = IF threw THEN @ ELSE TxRead(firestore, ref)]
       IN  tx' = [tx EXCEPT ![t] =
                IF threw /\ ~caught THEN Thrown(after, "read-after-write") ELSE after]
    /\ UNCHANGED <<firestore, currentlyExecutingBatchId, nextBatchId, batchMutex, batch, writer>>

\* updateFunction throws an error of its own, or returns a promise that
\* rejects.
TxThrows(t) ==
    /\ tx[t].pc = "fn"
    /\ tx' = [tx EXCEPT ![t] = Thrown(@, "thrown")]
    /\ UNCHANGED <<firestore, currentlyExecutingBatchId, nextBatchId, batchMutex, batch, writer>>

\* A write that forgets to flip preventReads.
C5_FlagNotSet(txn) == txn

\* The transaction after tx.set/update/delete, before it hands on to its batch.
Staged(txn) == [txn EXCEPT !.preventReads = TRUE]

TxRegister(t, op) ==
    /\ tx[t].pc = "fn"
    /\ tx' = [tx EXCEPT ![t] = Staged(@)]
    /\ Register(TxBatch(t), op)
    /\ UNCHANGED <<currentlyExecutingBatchId, nextBatchId, batchMutex, writer>>

TxSet(t, ref) ==
    TxRegister(t, SetOp(ref))

\* updateFunction goes on behind `await tx.get(ref)`:
\* tx.set(ref, { counter: snapshot.data().counter + 1 })
IncrementOp(ref, read) ==
    [kind |-> "set", ref |-> ref, value |-> Obj("counter" :> Num(read.v["counter"].v + 1))]

TxIncrement(t) ==
    /\ tx[t].lastGet.ref # Null
    /\ ~tx[t].lastGet.threw
    /\ tx[t].read # Null
    /\ ~tx[t].preventReads
    /\ TxRegister(t, IncrementOp(tx[t].lastGet.ref, tx[t].read))

TxUpdate(t, ref) ==
    TxRegister(t, UpdateOp(ref))

TxDelete(t, ref) ==
    TxRegister(t, DeleteOp(ref))

\* updateFunction returns result; runTransaction calls tx.batch.commit().
TxReturn(t, result) ==
    /\ tx[t].pc = "fn"
    /\ LET b == TxBatch(t)
           returned == [tx EXCEPT ![t] =
                [@ EXCEPT !.pc = PcAfterUpdateFunction(t),
                          !.result = result,
                          !.value = IF PcAfterUpdateFunction(t) = "resolved" THEN result ELSE @]]
       IN  IF LockIsFree(batchMutex)
           THEN Enter(b, returned)
           ELSE /\ batch' = [batch EXCEPT ![b].pc = "waiting"]
                /\ tx' = returned
                /\ UNCHANGED <<firestore, currentlyExecutingBatchId, batchMutex>>
    /\ UNCHANGED <<nextBatchId, writer>>

(***************************************************************************)
(* Unbatched writes: docRef.set / update / delete called directly.         *)
(***************************************************************************)
\* A write made outside the running commit is recorded with that commit.
Interfered(wrote) ==
    [b \in Batches |->
        IF batch[b].pc = "running" /\ wrote > 0
        THEN [batch[b] EXCEPT !.foreign = TRUE, !.windowWrites = @ + wrote]
        ELSE batch[b]]

WriterCall(w, op) ==
    /\ writer[w].pc = "idle"
    /\ writer' = [writer EXCEPT ![w] =
            [@ EXCEPT !.pc = "waiting", !.op = op, !.missing = MissingAtCall(firestore, op)]]
    /\ UNCHANGED <<firestore, currentlyExecutingBatchId, nextBatchId, batchMutex, batch, tx>>

WriterResume(w) ==
    /\ writer[w].pc = "waiting"
    /\ LET r == OperationResume(firestore, writer[w].op, writer[w].missing)
       IN  /\ firestore' = r.fs
           /\ writer' = [writer EXCEPT ![w] =
                   [@ EXCEPT !.pc = IF r.error = "none" THEN "resolved" ELSE "rejected",
                             !.error = r.error]]
           /\ batch' = Interfered(r.fs.onUpdate.count - firestore.onUpdate.count)
    /\ UNCHANGED <<currentlyExecutingBatchId, nextBatchId, batchMutex, tx>>

(***************************************************************************)
(* suspendChangeEvents() and resumeChangeEvents() called directly.         *)
(***************************************************************************)
Suspend ==
    /\ LET r == suspendChangeEvents(firestore)
       IN  /\ firestore' = r.fs
           /\ caller' = [tick |-> 1 - caller.tick, call |-> "suspend", threw |-> r.threw,
                         mark |-> IF r.threw THEN caller.mark ELSE firestore.onUpdate.count,
                         writes |-> 0, emitted |-> 0]
    /\ UNCHANGED <<currentlyExecutingBatchId, nextBatchId, batchMutex, batch, tx, writer>>

Resume ==
    /\ LET r == resumeChangeEvents(firestore)
       IN  /\ firestore' = r.fs
           /\ caller' = [tick |-> 1 - caller.tick, call |-> "resume", threw |-> r.threw,
                         mark |-> caller.mark,
                         writes |-> IF r.threw THEN 0 ELSE firestore.onUpdate.count - caller.mark,
                         emitted |-> r.fs.onChange.count - firestore.onChange.count]
    /\ UNCHANGED <<currentlyExecutingBatchId, nextBatchId, batchMutex, batch, tx, writer>>

(***************************************************************************)
(* Auto ids.  getAutoName(path) is the singular of the last word of the    *)
(* path; an id is that prefix followed by the decimal counter value.       *)
(***************************************************************************)
getAutoName(collectionPath) ==
    CASE collectionPath = "messages" -> "message"
      [] collectionPath = "mutexLocks" -> "lock"
      [] OTHER -> collectionPath

AutoId(prefix, nextId) == prefix \o ToString(nextId)

\* A counter that stops advancing at 2.
C11_CounterSticks(ids, path) ==
    LET nextId == IF path \in DOMAIN ids THEN ids[path] ELSE 1
    IN  [nextId |-> nextId, ids |-> Put(ids, path, IF nextId = 2 THEN nextId ELSE nextId + 1)]

\* getNextEmulatorId(path): the id vended and the Map afterwards.
getNextEmulatorId(ids, path) ==
    LET nextId == IF path \in DOMAIN ids THEN ids[path] ELSE 1
    IN  [nextId |-> nextId, ids |-> Put(ids, path, nextId + 1)]

\* The body that getAutoId(specifier) runs under the mutex, for a specifier
\* that names a collection: vend ids until one names no existing document.
\* Every await of the loop is on an already resolved promise, so the loop
\* runs against one state of the store.
RECURSIVE getAutoId(_, _, _)
getAutoId(fs, ids, specifier) ==
    LET vend == getNextEmulatorId(ids, specifier)
        newId == AutoId(getAutoName(specifier), vend.nextId)
        maybeExisting == getData(fs, DocRef(specifier, newId))
    IN  IF maybeExisting = Null
        THEN [id |-> Str(newId), n |-> vend.nextId, ids |-> vend.ids]
        ELSE getAutoId(fs, vend.ids, specifier)

\* A doc() that returns the first id it vends without looking at the store.
C12_NoProbe(fs, ids, collectionPath) ==
    LET nextId == IF collectionPath \in DOMAIN ids THEN ids[collectionPath] ELSE 1
    IN  [id |-> AutoId(getAutoName(collectionPath), nextId), ids |-> ids]

\* firestore.getNextId(collectionPath): the id vended and the Map afterwards.
getNextId(ids, collectionPath) ==
    LET nextId == IF collectionPath \in DOMAIN ids THEN ids[collectionPath] ELSE 1
    IN  [nextId |-> nextId, ids |-> Put(ids, collectionPath, nextId + 1)]

\* collection.doc() without an argument: vend ids until one names a slot
\* that holds nothing or the LoadsForever marker.
RECURSIVE doc(_, _, _)
doc(fs, ids, collectionPath) ==
    LET vend == getNextId(ids, collectionPath)
        documentId == AutoId(getAutoName(collectionPath), vend.nextId)
        maybeExisting == getData(fs, DocRef(collectionPath, documentId))
    IN  IF maybeExisting = Null \/ maybeExisting = LoadsForever
        THEN [id |-> documentId, ids |-> vend.ids]
        ELSE doc(fs, vend.ids, collectionPath)

\* The ids of the documents that a collection holds.
DocumentIds(fs, collectionPath) ==
    LET collection == getCollectionData(fs, collectionPath)
    IN  IF ~IsObject(collection) THEN {}
        ELSE {d \in DOMAIN collection.v : IsObject(collection.v[d])}

Doc ==
    /\ vended.calls < MaxDocCalls
    /\ LET r == doc(firestore, nextIds, Collection)
       IN  /\ nextIds' = r.ids
           /\ vended' = [calls |-> vended.calls + 1,
                         id |-> Str(r.id),
                         ids |-> vended.ids \cup {r.id},
                         again |-> r.id \in vended.ids,
                         taken |-> r.id \in DocumentIds(firestore, Collection)]
    /\ UNCHANGED <<firestore, currentlyExecutingBatchId, nextBatchId, batchMutex, batch, tx,
                   writer, caller, leaseVars, reset>>

\* firestore.setData(newData): replaces the data, resets the cumulative
\* ledger and the id counters, and emits a change event.
firestoreSetData(fs, newData) ==
    emitChangeEvent([fs EXCEPT !.data = IF Falsy(newData) THEN EmptyObject ELSE newData.v,
                               !.changes = EmptyObject])

\* A setData that leaves the id counters as they are.
C22_KeepsCounters(ids) == ids

\* this.nextIds = new Map()
NextIdsAfterSetData(ids) == EmptyObject

SetData(newData) ==
    /\ firestore.onChange.count < MaxDocCalls
    /\ firestore' = firestoreSetData(firestore, newData)
    /\ nextIds' = NextIdsAfterSetData(nextIds)
    /\ vended' = [vended EXCEPT !.ids = {}]
    /\ reset' = [calls |-> reset.calls + 1, newData |-> newData]
    /\ UNCHANGED <<currentlyExecutingBatchId, nextBatchId, batchMutex, batch, tx,
                   writer, caller, leaseVars>>

(***************************************************************************)
(* runWithFirestoreMutex(id, func).  tryAcquireLease runs a transaction    *)
(* that reads the lease with tx.get (the read happens at the call), stages *)
(* tx.set when it read no lease, and commits.  Runs are shorter than       *)
(* LEASE_EXPIRATION, so a lease that was read is never taken as expired.   *)
(***************************************************************************)
\* runWithFirestoreMutex is called; updateFunction of tryAcquireLease runs.
RunWithFirestoreMutex(g, kind) ==
    /\ lease[g].pc = "idle"
    /\ batch[LeaseBatch(g)].pc = "none"
    /\ LET read == getData(firestore, LeaseRef)
       IN  /\ batch' = [batch EXCEPT ![LeaseBatch(g)] =
                   [UnusedBatch EXCEPT !.pc = "open",
                                       !.batchId = BatchId(nextBatchId),
                                       !.operations = IF read = Null THEN <<LeaseOp>> ELSE <<>>]]
           /\ nextBatchId' = nextBatchId + 1
           /\ lease' = [lease EXCEPT ![g] =
                   [UnusedLease EXCEPT !.pc = "tx", !.kind = kind, !.leased = (read = Null)]]
    /\ UNCHANGED <<firestore, currentlyExecutingBatchId, batchMutex, tx, writer, emulatorNextIds>>

\* waitForFirestore(ref, predicate, { timeout }) up to its first await: the
\* timeout is armed, then ref.onSnapshot(onNext, onError) subscribes.  The
\* mock's onSnapshot(optionsOrHandler, handler = optionsOrHandler) takes the
\* second argument, onError, as its handler and calls it with the initial
\* snapshot unless the data is the LoadsForever token; onError clears the
\* timeout and settles nothing, and onNext is called by nothing.  timer
\* tells whether the timeout is armed afterwards, settled whether the
\* promise has resolved or rejected.
waitForFirestore(fs, ref) ==
    LET handlerCalled == getData(fs, ref) # LoadsForever
    IN  [timer |-> ~handlerCalled, settled |-> FALSE]

\* What follows the commit of tryAcquireLease's transaction without a timer
\* in between, for the callers in ls whose commit has settled in this step:
\* func starts (getAutoId runs to its return and releaseLease is called),
\* or the caller waits for the lease with waitForFirestore.  The mock's
\* onSnapshot(onNext, onError) takes its second argument as the handler, so
\* that wait never settles.
AfterTryAcquire(ls) ==
    LET settled == {g \in LeaseCallers :
                        /\ ls[g].pc = "acquiring"
                        /\ batch'[LeaseBatch(g)].pc \in {"committed", "rejected"}}
        auto == {g \in settled : /\ batch'[LeaseBatch(g)].pc = "committed"
                                 /\ ls[g].leased /\ ls[g].kind = "getAutoId"}
        vend == getAutoId(firestore', emulatorNextIds, Collection)
    IN  /\ lease' = [g \in LeaseCallers |->
                IF g \notin settled THEN ls[g]
                ELSE IF batch'[LeaseBatch(g)].pc = "rejected" THEN [ls[g] EXCEPT !.pc = "failed"]
                ELSE IF ~ls[g].leased
                     THEN [ls[g] EXCEPT !.pc = "blocked",
                                        !.timer = waitForFirestore(firestore', LeaseRef).timer]
                ELSE IF ls[g].kind = "getAutoId"
                     THEN [ls[g] EXCEPT !.pc = "releasing", !.outcome = "returned",
                                        !.result = vend.id, !.n = vend.n]
                ELSE [ls[g] EXCEPT !.pc = "func"]]
        /\ emulatorNextIds' = IF auto = {} THEN emulatorNextIds ELSE vend.ids

\* runTransaction calls tx.batch.commit().
LeaseCommit(g) ==
    /\ lease[g].pc = "tx"
    /\ IF LockIsFree(batchMutex)
       THEN Enter(LeaseBatch(g), tx)
       ELSE /\ batch' = [batch EXCEPT ![LeaseBatch(g)].pc = "waiting"]
            /\ UNCHANGED <<firestore, currentlyExecutingBatchId, batchMutex, tx>>
    /\ AfterTryAcquire([lease EXCEPT ![g].pc = "acquiring"])
    /\ UNCHANGED <<nextBatchId, writer>>

\* A step of the commit of some caller's transaction.
LeaseCommitStep(b) ==
    /\ CommitEnter(b) \/ CommitStep(b)
    /\ AfterTryAcquire(lease)

\* func's timer fires: func returns or throws, and the finally block calls
\* releaseLease.
FuncSettles(g) ==
    /\ lease[g].pc = "func"
    /\ lease' = [lease EXCEPT ![g] =
            [@ EXCEPT !.pc = "releasing",
                      !.outcome = IF lease[g].kind = "throws" THEN "threw" ELSE "returned",
                      !.result = IF lease[g].kind = "throws" THEN FuncError ELSE FuncResult]]
    /\ UNCHANGED <<firestore, currentlyExecutingBatchId, nextBatchId, batchMutex, batch, tx,
                   writer, emulatorNextIds>>

\* A release that leaves the lease in place.
C14_NoRelease(fs, ref) == [error |-> "none", fs |-> fs]

\* releaseLease(ref): ref.delete(), after its wait().
releaseLease(fs, ref) == OperationResume(fs, DeleteOp(ref), FALSE)

\* The delete of releaseLease is applied and runWithFirestoreMutex settles.
ReleaseLease(g) ==
    /\ lease[g].pc = "releasing"
    /\ LET r == releaseLease(firestore, LeaseRef)
       IN  /\ firestore' = r.fs
           /\ batch' = Interfered(r.fs.onUpdate.count - firestore.onUpdate.count)
    /\ lease' = [lease EXCEPT ![g].pc = "done"]
    /\ UNCHANGED <<currentlyExecutingBatchId, nextBatchId, batchMutex, tx, writer, emulatorNextIds>>

(***************************************************************************)
(* A caller that awaits each document operation before the next one.       *)
(***************************************************************************)
\* The document of the last collection.doc() call.
AutoRef == DocRef(Collection, IF vended.id = Null THEN "" ELSE vended.id.v)

ClientCall(op) ==
    /\ client.pc = "idle"
    /\ client.calls < MaxCalls
    /\ client' = [client EXCEPT !.pc = "waiting", !.calls = @ + 1, !.op = op,
                                !.missing = MissingAtCall(firestore, op)]
    /\ UNCHANGED <<firestore, currentlyExecutingBatchId, nextBatchId, batchMutex, batch, tx,
                   writer, caller, leaseVars, idVars>>

ClientResume ==
    /\ client.pc = "waiting"
    /\ LET r == OperationResume(firestore, client.op, client.missing)
       IN  /\ firestore' = r.fs
           /\ client' = [client EXCEPT !.pc = "idle", !.error = r.error, !.last = client.op,
                                       !.existed = exists(firestore, client.op.ref)]
    /\ UNCHANGED <<currentlyExecutingBatchId, nextBatchId, batchMutex, batch, tx,
                   writer, caller, leaseVars, idVars>>

\* await ref.get()
ClientGet(ref) ==
    /\ client.pc = "idle"
    /\ client.calls < MaxCalls
    /\ ~get(firestore, ref).v.pending
    /\ client' = [client EXCEPT !.calls = @ + 1, !.error = "none",
                                !.last = [kind |-> "get", ref |-> ref, value |-> Null],
                                !.snapshot = get(firestore, ref)]
    /\ UNCHANGED <<firestore, currentlyExecutingBatchId, nextBatchId, batchMutex, batch, tx,
                   writer, caller, leaseVars, idVars>>

(***************************************************************************)
(* Queries.  The program holds the collection reference, which is a query  *)
(* with the params of NewQuery, and the query that the last builder call   *)
(* returned; a builder is called on either of them.                        *)
(***************************************************************************)
Receivers == {"collection", "query"}
Receiver(receiver) == IF receiver = "collection" THEN NewQuery ELSE query
\* this.params of a query: the two shared arrays and the query's own fields.
Params(arrays, q) ==
    [ where |-> arrays.where, order |-> arrays.order,
      limit |-> q.limit, limitToLast |-> q.limitToLast, startAt |-> q.startAt,
      startAfter |-> q.startAfter, endAt |-> q.endAt, endBefore |-> q.endBefore ]
CursorNames == {"startAt", "startAfter", "endAt", "endBefore"}
NumCursors(q) == Cardinality({name \in CursorNames : q[name] # Undefined})

\* where(): newParams.where is this.params.where, the array that the
\* collection reference created; the clause is pushed onto it.
Where(receiver, clause) ==
    /\ ~answer.got
    /\ Len(collectionRef.where) < MaxWhere
    /\ collectionRef' = [collectionRef EXCEPT !.where = Append(@, clause)]
    /\ query' = [Receiver(receiver) EXCEPT !.isCountOnly = FALSE]
    /\ UNCHANGED <<firestore, currentlyExecutingBatchId, nextBatchId, batchMutex, batch, tx,
                   writer, caller, leaseVars, idVars, client, answer, listener, iterator>>

OrderBy(receiver, clause) ==
    /\ ~answer.got
    /\ Len(collectionRef.order) < MaxOrder
    /\ collectionRef' = [collectionRef EXCEPT !.order = Append(@, clause)]
    /\ query' = [Receiver(receiver) EXCEPT !.isCountOnly = FALSE]
    /\ UNCHANGED <<firestore, currentlyExecutingBatchId, nextBatchId, batchMutex, batch, tx,
                   writer, caller, leaseVars, idVars, client, answer, listener, iterator>>

\* startAt, startAfter, endAt, endBefore: newParams[name] = fieldValues
Cursor(receiver, name, fieldValues) ==
    /\ ~answer.got
    /\ NumCursors(Receiver(receiver)) < MaxCursors
    /\ query' = [Receiver(receiver) EXCEPT ![name] = fieldValues, !.isCountOnly = FALSE]
    /\ UNCHANGED <<firestore, currentlyExecutingBatchId, nextBatchId, batchMutex, batch, tx,
                   writer, caller, leaseVars, idVars, client, collectionRef, answer, listener, iterator>>

StartAt(receiver, fieldValues) == Cursor(receiver, "startAt", fieldValues)
StartAfter(receiver, fieldValues) == Cursor(receiver, "startAfter", fieldValues)
EndAt(receiver, fieldValues) == Cursor(receiver, "endAt", fieldValues)
EndBefore(receiver, fieldValues) == Cursor(receiver, "endBefore", fieldValues)

Limit(receiver, num) ==
    /\ ~answer.got
    /\ query' = [Receiver(receiver) EXCEPT !.limit = num, !.isCountOnly = FALSE]
    /\ UNCHANGED <<firestore, currentlyExecutingBatchId, nextBatchId, batchMutex, batch, tx,
                   writer, caller, leaseVars, idVars, client, collectionRef, answer, listener, iterator>>

LimitToLast(receiver, num) ==
    /\ ~answer.got
    /\ query' = [Receiver(receiver) EXCEPT !.limitToLast = num, !.isCountOnly = FALSE]
    /\ UNCHANGED <<firestore, currentlyExecutingBatchId, nextBatchId, batchMutex, batch, tx,
                   writer, caller, leaseVars, idVars, client, collectionRef, answer, listener, iterator>>

Count(receiver) ==
    /\ ~answer.got
    /\ ~Receiver(receiver).isCountOnly
    /\ query' = [Receiver(receiver) EXCEPT !.isCountOnly = TRUE]
    /\ UNCHANGED <<firestore, currentlyExecutingBatchId, nextBatchId, batchMutex, batch, tx,
                   writer, caller, leaseVars, idVars, client, collectionRef, answer, listener, iterator>>

\* query.get(): what it resolves with; on LoadsForever it never settles.
QueryGet(fs, collectionPath, params, isCountOnly) ==
    LET snapshots == QueryData(fs, collectionPath, params)
    IN  IF isCountOnly THEN [k |-> "count", v |-> Len(snapshots.v)]
        ELSE [k |-> "QuerySnapshot", v |-> snapshots.v]

\* await query.get(), on the query built last.
Get ==
    /\ ~answer.got
    /\ LET params == Params(collectionRef, query)
       IN  answer' = IF QueryData(firestore, Collection, params) = LoadsForever
                     THEN [NoAnswer EXCEPT !.result = Awaiting, !.target = Str("query")]
                     ELSE [NoAnswer EXCEPT
                              !.got = TRUE, !.target = Str("query"),
                              !.result = QueryGet(firestore, Collection, params,
                                                  query.isCountOnly)]
    /\ UNCHANGED <<firestore, currentlyExecutingBatchId, nextBatchId, batchMutex, batch, tx,
                   writer, caller, leaseVars, idVars, client, collectionRef, query, listener, iterator>>

\* await documentRef.get()
DocumentGet(documentRef) ==
    /\ answer = NoAnswer
    /\ answer' = IF getData(firestore, documentRef) = LoadsForever
                 THEN [NoAnswer EXCEPT !.result = Awaiting, !.target = documentRef]
                 ELSE [NoAnswer EXCEPT !.got = TRUE, !.result = get(firestore, documentRef),
                                       !.target = documentRef]
    /\ UNCHANGED <<firestore, currentlyExecutingBatchId, nextBatchId, batchMutex, batch, tx,
                   writer, caller, leaseVars, idVars, client, collectionRef, query, listener, iterator>>

(***************************************************************************)
(* onSnapshot.  onDataChange compares what it read with what it delivered  *)
(* last (lastData, undefined before the first delivery) and calls the      *)
(* handler when they differ; onSnapshot registers it for 'change' and      *)
(* calls it once itself.  listener holds the number of calls of the        *)
(* handler and the snapshot of the last call.                              *)
(***************************************************************************)
\* shallowEqualArrays(docs, lastDocs) where nothing was delivered yet:
\* an array does not equal undefined.
shallowEqualArrays(arrA, arrB) == arrB # Undefined /\ arrA = arrB

\* An onDataChange that does not call the handler on the first update.
C29_SkipsFirstDelivery(fs, documentRef, lastData, last) == last

\* onDataChange of a document reference: the listener after it.
DocumentOnDataChange(fs, documentRef, lastData, last) ==
    LET data == getData(fs, documentRef)
    IN  IF data = LoadsForever THEN last
        ELSE IF data # lastData
        THEN [last EXCEPT !.calls = @ + 1, !.snapshot = get(fs, documentRef)]
        ELSE last

\* onDataChange of a query.
QueryOnDataChange(fs, collectionPath, params, lastDocs, last) ==
    LET Delivery(data) ==
            IF data = LoadsForever THEN last
            ELSE IF ~shallowEqualArrays([j \in 1..Len(data.v) |-> data.v[j].data], lastDocs)
            THEN [last EXCEPT !.calls = @ + 1,
                              !.snapshot = [k |-> "QuerySnapshot", v |-> data.v]]
            ELSE last
    IN  Delivery(QueryData(fs, collectionPath, params))

\* documentRef.onSnapshot(handler), up to its return.
DocumentOnSnapshot(documentRef) ==
    /\ ~listener.subscribed
    /\ listener' = DocumentOnDataChange(firestore, documentRef, Undefined,
                                        [NoListener EXCEPT !.subscribed = TRUE,
                                                           !.target = documentRef])
    /\ UNCHANGED <<firestore, currentlyExecutingBatchId, nextBatchId, batchMutex, batch, tx,
                   writer, caller, leaseVars, idVars, client, collectionRef, query, answer, iterator>>

\* query.onSnapshot(handler) on the query built last, up to its return.
QueryOnSnapshot ==
    /\ ~listener.subscribed
    /\ listener' = QueryOnDataChange(firestore, Collection, Params(collectionRef, query),
                                     Undefined,
                                     [NoListener EXCEPT !.subscribed = TRUE,
                                                        !.target = Str("query")])
    /\ UNCHANGED <<firestore, currentlyExecutingBatchId, nextBatchId, batchMutex, batch, tx,
                   writer, caller, leaseVars, idVars, client, collectionRef, query, answer, iterator>>

\* The payloads of a snapshot: the documents' data, one for a document.
Payloads(snapshot) ==
    IF snapshot.k = "QuerySnapshot" THEN [j \in 1..Len(snapshot.v) |-> snapshot.v[j].data]
    ELSE <<snapshot.v.data>>

\* A data() that records its read in the change ledgers.
C33_RecordsRead(fs) == updateFieldPathForChange(fs, <<Collection>>, Str("<read>"))

\* The store after data(): it reads firestore.getCollectionData, sorts and
\* filters the array of entries that Object.entries created, and writes
\* nothing to the store.
StoreAfterData(fs) == fs

\* One evaluation of the query built last: await get() (a count for a
\* count() query), or the onDataChange of a subscription, which reads
\* data() and unwraps the payloads.  answer keeps the result together with
\* the params, the kind and the store data it was computed from, the
\* number of evaluations, and whether the one before had the same inputs.
Evaluate(kind) ==
    LET params == Params(collectionRef, query)
        inputs == [params |-> params, isCountOnly |-> query.isCountOnly, kind |-> kind,
                   data |-> firestore.data]
        result == IF kind = "get"
                  THEN QueryGet(firestore, Collection, params, query.isCountOnly)
                  ELSE [k |-> "docs",
                        v |-> Payloads([k |-> "QuerySnapshot",
                                        v |-> QueryData(firestore, Collection, params).v])]
    IN  /\ answer.count < MaxEvaluations
        /\ answer' = [got |-> TRUE, result |-> result, target |-> Str("query"),
                      inputs |-> inputs, count |-> answer.count + 1,
                      again |-> answer.inputs = inputs]
        /\ firestore' = StoreAfterData(firestore)
        /\ UNCHANGED <<currentlyExecutingBatchId, nextBatchId, batchMutex, batch, tx,
                       writer, caller, leaseVars, idVars, client, collectionRef, query, listener, iterator>>

\* 'change' is emitted while the handler is registered and onDataChange
\* runs.  On the LoadsForever marker it returns.  Else it calls the handler
\* when the payloads it reads are not the ones it delivered last; payloads
\* that are equal objects are the same objects or copies depending on what
\* merge() of the crosswing library copies, and both outcomes are kept.
ListenerOnChange(fs, last) ==
    LET data == IF last.target = Str("query")
                THEN QueryData(fs, Collection, Params(collectionRef, query))
                ELSE getData(fs, last.target)
        delivered == IF last.target = Str("query")
                     THEN QueryOnDataChange(fs, Collection, Params(collectionRef, query),
                                            Undefined, last)
                     ELSE DocumentOnDataChange(fs, last.target, Undefined, last)
        Outcomes(marker, after) ==
            LET payloads == Payloads(after.snapshot)
            IN  IF marker THEN {last}
                ELSE IF last.snapshot = Null \/ payloads # Payloads(last.snapshot) THEN {after}
                ELSE IF \A j \in 1..Len(payloads) : payloads[j] = Null THEN {last}
                ELSE {last, after}
    IN  Outcomes(data = LoadsForever, delivered)

DirectWrite(documentRef, data) ==
    /\ firestore.data # LoadsForever
    /\ firestore.onChange.count < MaxChanges
    /\ firestore' = writeDocument(firestore, documentRef, data)
    /\ listener' \in IF listener.subscribed THEN ListenerOnChange(firestore', listener)
                      ELSE {listener}
    /\ UNCHANGED <<currentlyExecutingBatchId, nextBatchId, batchMutex, batch, tx,
                   writer, caller, leaseVars, idVars, client, collectionRef, query, answer, iterator>>

(***************************************************************************)
(* iterateAllSnapshots(query), on the query built last or on the           *)
(* collection reference when no builder was called.                        *)
(***************************************************************************)
MAX_PAGE_SIZE == 100
FirstPageSize == 10

\* !lastDoc ? query.limit(pageSize) : query.startAfter(lastDoc).limit(pageSize)
nextQuery(params, lastDoc, pageSize) ==
    LET after == IF lastDoc = Null THEN params
                 ELSE [params EXCEPT !.startAfter = Arr(<<lastDoc>>)]
    IN  [after EXCEPT !.limit = Num(pageSize)]

\* iterateAllSnapshots(query) is called and the generator is started.
IterateAllSnapshots ==
    /\ iterator.pc = "none"
    /\ iterator' = [NoIterator EXCEPT !.pc = "fetch", !.pageSize = FirstPageSize]
    /\ UNCHANGED <<firestore, currentlyExecutingBatchId, nextBatchId, batchMutex, batch, tx,
                   writer, caller, leaseVars, idVars, client, collectionRef, query, answer,
                   listener>>

\* await nextQuery.get() resolves.
IteratorGet ==
    /\ iterator.pc = "fetch"
    /\ LET data == QueryData(firestore, Collection,
                             nextQuery(Params(collectionRef, query), iterator.lastDoc,
                                       iterator.pageSize))
       IN  /\ data # LoadsForever
           /\ iterator' = [iterator EXCEPT !.pc = "yield", !.docs = data.v, !.index = 0,
                                           !.pages = @ + 1]
    /\ UNCHANGED <<firestore, currentlyExecutingBatchId, nextBatchId, batchMutex, batch, tx,
                   writer, caller, leaseVars, idVars, client, collectionRef, query, answer,
                   listener>>

\* The consumer resumes the generator: the next document of the page is
\* yielded, or the loop over the page has ended and the generator returns
\* or requests the next page.
IteratorNext ==
    /\ iterator.pc = "yield"
    /\ LET size == Len(iterator.docs)
           doubled == iterator.pageSize * 2
       IN  iterator' =
               IF iterator.index < size
               THEN [iterator EXCEPT !.index = @ + 1,
                                     !.yielded = Append(@, iterator.docs[iterator.index + 1].id)]
               ELSE IF size < iterator.pageSize
               THEN [iterator EXCEPT !.pc = "done"]
               ELSE [iterator EXCEPT
                        !.pc = "fetch",
                        !.lastDoc = [k |-> "DocumentSnapshot", v |-> iterator.docs[size]],
                        !.pageSize = IF doubled < MAX_PAGE_SIZE THEN doubled ELSE MAX_PAGE_SIZE]
    /\ UNCHANGED <<firestore, currentlyExecutingBatchId, nextBatchId, batchMutex, batch, tx,
                   writer, caller, leaseVars, idVars, client, collectionRef, query, answer,
                   listener>>

(***************************************************************************)
(* Specifications.                                                         *)
(***************************************************************************)
CommitActions ==
    \/ \E b \in Batches : CommitEnter(b)
    \/ \E b \in Batches : CommitStep(b)

BatchActions ==
    \/ \E b \in UserBatches : Batch(b)
    \/ \E b \in UserBatches, ref \in Refs : BatchSet(b, ref)
    \/ \E b \in UserBatches, ref \in Refs : BatchUpdate(b, ref)
    \/ \E b \in UserBatches, ref \in Refs : BatchDelete(b, ref)
    \/ \E b \in UserBatches : Commit(b)

WriterActions ==
    \/ \E w \in Writers, op \in WriteOps : WriterCall(w, op)
    \/ \E w \in Writers : WriterResume(w)

TxActions ==
    \/ \E t \in Txs : RunTransaction(t)
    \/ \E t \in Txs, ref \in Refs, caught \in BOOLEAN : TxGet(t, ref, caught)
    \/ \E t \in Txs, ref \in TxRefs : TxSet(t, ref)
    \/ \E t \in Txs, ref \in TxRefs : TxUpdate(t, ref)
    \/ \E t \in Txs, ref \in TxRefs : TxDelete(t, ref)
    \/ \E t \in Txs, result \in Results : TxReturn(t, result)
    \/ \E t \in Txs : TxThrows(t)

\* A batch of the user and an unbatched write.
Next ==
    /\ BatchActions \/ (\E b \in UserBatches : CommitStep(b)) \/ WriterActions
    /\ UNCHANGED <<caller, leaseVars, idVars, client, queryVars>>
Spec == Init /\ [][Next]_vars

\* A transaction and, committing concurrently, a batch of sets of the user.
NextTx ==
    /\ \/ TxActions
       \/ \E b \in UserBatches : Batch(b)
       \/ \E b \in UserBatches, ref \in Refs : BatchSet(b, ref)
       \/ \E b \in UserBatches : Commit(b)
       \/ CommitActions
    /\ UNCHANGED <<caller, leaseVars, idVars, client, queryVars>>
SpecTx == Init /\ [][NextTx]_vars

\* Direct calls of suspend/resumeChangeEvents around unbatched writes.
NextBus ==
    /\ \/ Suspend
       \/ Resume
       \/ /\ \/ \E w \in BusWriters, op \in WriteOps : WriterCall(w, op)
             \/ \E w \in BusWriters : WriterResume(w)
          /\ UNCHANGED caller
    /\ UNCHANGED <<leaseVars, idVars, client, queryVars>>
SpecBus == Init /\ [][NextBus]_vars

\* Concurrent callers of runWithFirestoreMutex on one lease.
InitLease ==
    /\ firestore \in {MockFirestore(d) : d \in LeaseInitialData}
    /\ Idle

NextLease ==
    /\ \/ \E g \in LeaseCallers, kind \in FuncKinds : RunWithFirestoreMutex(g, kind)
       \/ \E g \in LeaseCallers : LeaseCommit(g)
       \/ \E b \in Batches : LeaseCommitStep(b)
       \/ \E g \in LeaseCallers : FuncSettles(g)
       \/ \E g \in LeaseCallers : ReleaseLease(g)
    /\ UNCHANGED <<caller, idVars, client, queryVars>>
SpecLease == InitLease /\ [][NextLease]_vars

\* iterateAllSnapshots over a collection of up to MaxPageDocs documents,
\* numbered against the order in which they were stored, on the collection
\* reference or on a query ordered by the number.
MaxPageDocs == 12
PageDoc(j, size) == QueryDoc(Num(size + 1 - j), "a")
PageCollection(size) ==
    Obj([id \in {PageIds[j] : j \in 1..size} |->
            PageDoc(CHOOSE j \in 1..size : PageIds[j] = id, size)])
PageInitialData == {Collection :> PageCollection(size) : size \in 0..MaxPageDocs}
PageOrderClauses == {OrderClause(N, d) : d \in {"asc", "desc"}}

InitPage ==
    /\ firestore \in {MockFirestore(d) : d \in PageInitialData}
    /\ Idle

NextPage ==
    \/ \E clause \in PageOrderClauses : iterator.pc = "none" /\ OrderBy("collection", clause)
    \/ IterateAllSnapshots
    \/ IteratorGet
    \/ IteratorNext
SpecPage == InitPage /\ [][NextPage]_vars

\* Two transactions that read a counter and write it back incremented.
CounterRef == DocRef(Collection, "m1")
CounterInitialData ==
    {[c \in {Collection} |-> Obj("m1" :> Obj("counter" :> Num(n)))] : n \in {0, 1}}
InitCounter ==
    /\ firestore \in {MockFirestore(d) : d \in CounterInitialData}
    /\ Idle

NextCounter ==
    /\ \/ \E t \in CounterTxs : RunTransaction(t)
       \/ \E t \in CounterTxs : ~tx[t].preventReads /\ TxGet(t, CounterRef, FALSE)
       \/ \E t \in CounterTxs : TxIncrement(t)
       \/ \E t \in CounterTxs, result \in Results :
                tx[t].preventReads /\ TxReturn(t, result)
       \/ CommitActions
    /\ UNCHANGED <<caller, leaseVars, idVars, client, queryVars>>
SpecCounter == InitCounter /\ [][NextCounter]_vars

\* The same callers under fair scheduling: a promise that has settled is
\* resumed and a timer that is armed fires, so a step that stays possible
\* is taken.
SpecLeaseFair == SpecLease /\ WF_vars(NextLease)

\* collection.doc() between unbatched writes under ids of the auto-id form
\* and firestore.setData.
NextIds ==
    /\ \/ Doc
       \/ \E newData \in SetDataInputs : SetData(newData)
       \/ /\ \/ \E w \in Writers, op \in IdOps : WriterCall(w, op)
             \/ \E w \in Writers : WriterResume(w)
          /\ UNCHANGED <<caller, leaseVars, idVars>>
    /\ UNCHANGED <<client, queryVars>>
SpecIds == InitLease /\ [][NextIds]_vars

\* One caller that awaits document operations one after the other, on a
\* document with an explicit id and on a document obtained from doc().
InitDoc ==
    /\ firestore \in {MockFirestore(d) : d \in DocInitialData}
    /\ Idle

NextDoc ==
    /\ \/ Doc /\ UNCHANGED client
       \/ \E op \in ClientOps : ClientCall(op)
       \/ \E op \in {SetTo(AutoRef, d) : d \in DocValues} : vended.id # Null /\ ClientCall(op)
       \/ ClientResume
       \/ ClientGet(ClientRef)
       \/ vended.id # Null /\ ClientGet(AutoRef)
    /\ UNCHANGED queryVars
SpecDoc == InitDoc /\ [][NextDoc]_vars

\* One caller that sets, reads and deletes a document of a subcollection
\* and its parent document.
ParentRef == DocRef(Collection, "m1")
SubRef == DocRef(SubcollectionPath(ParentRef, Subcollection), "r1")
SubOps ==
    {SetTo(r, d) : r \in {SubRef, ParentRef}, d \in {Da, Dab}}
        \cup {DeleteOp(r) : r \in {SubRef, ParentRef}}

NextSub ==
    /\ \/ \E op \in SubOps : ClientCall(op)
       \/ ClientResume
       \/ \E ref \in {SubRef, ParentRef} : ClientGet(ref)
    /\ UNCHANGED queryVars
SpecSub == InitDoc /\ [][NextSub]_vars

\* Queries of one collection reference, each built by a call on the
\* collection reference or on the query built before, and a get().
InitBuild ==
    /\ firestore \in {MockFirestore(d) : d \in BuildInitialData}
    /\ Idle

NextBuild ==
    \/ \E r \in Receivers, clause \in BuildWhere : Where(r, clause)
    \/ \E r \in Receivers, clause \in BuildOrder : OrderBy(r, clause)
    \/ \E r \in Receivers, values \in CursorsFor(collectionRef.order, BuildBounds) : StartAt(r, values)
    \/ \E r \in Receivers, values \in CursorsFor(collectionRef.order, BuildBounds) : StartAfter(r, values)
    \/ \E r \in Receivers, values \in CursorsFor(collectionRef.order, BuildBounds) : EndAt(r, values)
    \/ \E r \in Receivers, values \in CursorsFor(collectionRef.order, BuildBounds) : EndBefore(r, values)
    \/ \E r \in Receivers : Limit(r, Num(1))
    \/ \E r \in Receivers : LimitToLast(r, Num(1))
    \/ \E r \in Receivers : Count(r)
    \/ Get
SpecBuild == InitBuild /\ [][NextBuild]_vars

\* collection.where(...).where(...).get()
InitWhere ==
    /\ firestore \in {MockFirestore(d) : d \in WhereInitialData}
    /\ Idle

NextWhere ==
    \/ \E clause \in WhereClauses \cup UnsupportedClauses : Where("query", clause)
    \/ Get
SpecWhere == InitWhere /\ [][NextWhere]_vars

\* collection.orderBy(...) with cursors and limits, and get()
InitOrder ==
    /\ firestore \in {MockFirestore(d) : d \in OrderInitialData}
    /\ Idle

NextOrder ==
    \/ \E clause \in OrderClauses : OrderBy("query", clause)
    \/ \E values \in CursorsFor(collectionRef.order, OrderBounds) : StartAt("query", values)
    \/ \E values \in CursorsFor(collectionRef.order, OrderBounds) : StartAfter("query", values)
    \/ \E values \in CursorsFor(collectionRef.order, OrderBounds) : EndAt("query", values)
    \/ \E values \in CursorsFor(collectionRef.order, OrderBounds) : EndBefore("query", values)
    \/ \E num \in Limits : Limit("query", num)
    \/ \E num \in LastLimits : LimitToLast("query", num)
    \/ Get
SpecOrder == InitOrder /\ [][NextOrder]_vars

\* A query is built with where clauses; then onSnapshot is called on a
\* document reference or on the query.
InitListen ==
    /\ firestore \in {MockFirestore(d) : d \in ListenInitialData}
    /\ Idle

NextListen ==
    \/ \E clause \in WhereClauses : ~listener.subscribed /\ Where("query", clause)
    \/ \E documentRef \in ListenRefs : DocumentOnSnapshot(documentRef)
    \/ QueryOnSnapshot
SpecListen == InitListen /\ [][NextListen]_vars

\* A batch of sets of the user, an unbatched write and firestore.setData.
NextSuspend ==
    /\ \/ /\ \/ \E b \in UserBatches : Batch(b)
             \/ \E b \in UserBatches, ref \in Refs : BatchSet(b, ref)
             \/ \E b \in UserBatches : Commit(b)
             \/ \E b \in UserBatches : CommitStep(b)
             \/ WriterActions
          /\ UNCHANGED idVars
       \/ \E newData \in SuspendSetData : SetData(newData)
    /\ UNCHANGED <<caller, leaseVars, client, queryVars>>
SpecSuspend == Init /\ [][NextSuspend]_vars

\* A query is built step by step and evaluated again and again, and a
\* document is written in between.
InitPure ==
    /\ firestore \in {MockFirestore(d) : d \in BuildInitialData}
    /\ Idle

NextPure ==
    \/ \E clause \in BuildWhere : Where("query", clause)
    \/ \E clause \in BuildOrder : OrderBy("query", clause)
    \/ Limit("query", Num(1))
    \/ Count("query")
    \/ \E kind \in {"get", "onDataChange"} : Evaluate(kind)
    \/ DirectWrite(DocRef(Collection, "m3"), QueryDoc(Num(1), "b"))
SpecPure == InitPure /\ [][NextPure]_vars

\* A caller applies array unions to one field, one awaited call after the
\* other, and reads the document.
InitUnion ==
    /\ firestore \in {MockFirestore(d) : d \in UnionInitialData}
    /\ Idle

NextUnion ==
    /\ \/ \E op \in UnionOps : ClientCall(op)
       \/ ClientResume
       \/ ClientGet(ClientRef)
    /\ UNCHANGED queryVars
SpecUnion == InitUnion /\ [][NextUnion]_vars

\* get() and onSnapshot on references whose data is the LoadsForever
\* marker, absent or present, with writes to another collection.
InitPending ==
    /\ firestore \in {MockFirestore(d) : d \in PendingInitialData}
    /\ Idle

NextPending ==
    \/ \E clause \in PendingWhere : ~listener.subscribed /\ answer = NoAnswer /\ Where("query", clause)
    \/ answer = NoAnswer /\ Get
    \/ \E documentRef \in PendingRefs : DocumentGet(documentRef)
    \/ \E documentRef \in PendingRefs : DocumentOnSnapshot(documentRef)
    \/ QueryOnSnapshot
    \/ DirectWrite(ElsewhereRef, Da)
SpecPending == InitPending /\ [][NextPending]_vars

(***************************************************************************)
(* Reference semantics used by the properties: the operations applied one  *)
(* after another to a store holding `data`, each seeing the effects of the *)
(* earlier ones, up to the first one that throws.                          *)
(***************************************************************************)
RECURSIVE ApplyFrom(_, _, _)
ApplyFrom(fs, ops, i) ==
    IF i > Len(ops) THEN [data |-> fs.data, error |-> "none"]
    ELSE LET r == OperationResume(fs, ops[i], MissingAtCall(fs, ops[i]))
         IN  IF r.error # "none" THEN [data |-> fs.data, error |-> r.error]
             ELSE ApplyFrom(r.fs, ops, i + 1)

ApplyAll(data, ops) == ApplyFrom(MockFirestore(data), ops, 1)

\* The store's data when the commit of b took (or takes, in this step) the lock.
StartOf(b) == IF batch[b].pc = "running" THEN batch[b].start ELSE firestore.data

Settled(b) == batch[b].pc \in {"committed", "rejected"}
Settles(b) == ~Settled(b) /\ batch'[b].pc \in {"committed", "rejected"}

\* The operations of b that have written: every operation that did not throw.
OwnWrites(b) ==
    IF batch[b].error = "already-suspended" THEN 0
    ELSE IF batch[b].threwAt > 0 THEN batch[b].threwAt - 1
    ELSE Len(batch[b].operations)

(***************************************************************************)
(* C1: commits of the same store never interleave.  At most one commit is  *)
(* between its suspendChangeEvents and its resumeChangeEvents, it holds    *)
(* the lock and its id is the executing one; change events are suspended   *)
(* exactly while a commit runs; and no commit fails because events were    *)
(* already suspended or were resumed under it.                             *)
(***************************************************************************)
C1_CommitsNeverInterleave ==
    /\ Cardinality({b \in Batches : batch[b].pc = "running"}) <= 1
    /\ \A b \in Batches :
          /\ batch[b].pc = "running" =>
                /\ batchMutex = b
                /\ currentlyExecutingBatchId = batch[b].batchId
                /\ firestore.suspendingChangeEvents
          /\ batch[b].error \notin {"already-suspended", "not-suspended"}
    /\ (\A b \in Batches : batch[b].pc # "running") =>
          /\ ~firestore.suspendingChangeEvents
          /\ batchMutex = "free"

\* One commit waits for the lock while the other is in the middle of its operations.
C1_Witness ==
    \E b, c \in Batches :
        /\ batch[b].pc = "waiting" /\ Len(batch[b].operations) > 0
        /\ batch[c].pc = "running" /\ batch[c].index = 2

(***************************************************************************)
(* C2: commit() runs the operations in registration order, each seeing the *)
(* earlier ones: when a commit resolves and nobody else wrote meanwhile,   *)
(* the store's data is what applying the operations one after another to   *)
(* the data at the start gives, and none of them failed.                   *)
(***************************************************************************)
C2_OperationsInOrder ==
    [][\A b \in Batches :
          (Settles(b) /\ batch'[b].pc = "committed" /\ ~batch'[b].foreign) =>
              ApplyAll(StartOf(b), batch[b].operations)
                  = [data |-> firestore'.data, error |-> "none"]]_vars

\* set(m2) then update(m2) on an absent m2 has committed and left {a: 1, b: 2}.
C2_Witness ==
    /\ batch["b1"].pc = "committed"
    /\ batch["b1"].operations = <<SetOp(DocRef(Collection, "m2")), UpdateOp(DocRef(Collection, "m2"))>>
    /\ \A w \in Writers : writer[w].pc = "idle"
    /\ getData(firestore, DocRef(Collection, "m2")) = Obj([x \in {"a", "b"} |-> IF x = "a" THEN Num(1) ELSE Num(2)])

(***************************************************************************)
(* C3 (as amended): a commit emits no 'change' event while it runs, and    *)
(* when it settles it has emitted exactly one if a document was written    *)
(* while it ran (by its operations or by an unbatched write that was       *)
(* applied meanwhile) and none otherwise, whether it resolves or rejects.  *)
(***************************************************************************)
C3_OneCoalescedChange ==
    \A b \in Batches :
        /\ batch[b].pc = "running" => batch[b].emitted = 0
        /\ Settled(b) => batch[b].emitted = IF batch[b].windowWrites > 0 THEN 1 ELSE 0

\* A commit that wrote two different documents and emitted one event.
C3_Witness ==
    \E b \in Batches :
        /\ batch[b].pc = "committed" /\ ~batch[b].foreign
        /\ batch[b].windowWrites = 2 /\ batch[b].emitted = 1
        /\ batch[b].operations[1].ref # batch[b].operations[2].ref

\* C3 as stated: one event if an operation of the commit wrote, none if the
\* commit wrote nothing.
C3_AsStated ==
    \A b \in Batches :
        Settled(b) => batch[b].emitted = IF OwnWrites(b) > 0 THEN 1 ELSE 0

(***************************************************************************)
(* C4: when the k-th operation throws, the commit rejects with that error, *)
(* no later operation is called then or afterwards, and the writes of the  *)
(* operations before it stay: the data is what operations 1..k-1 give.     *)
(***************************************************************************)
C4_AbortsWithoutRollback ==
    [][\A b \in Batches :
          /\ (batch'[b].threwAt > 0 /\ batch[b].threwAt = 0) =>
                LET k == batch'[b].threwAt
                    before == ApplyAll(StartOf(b), SubSeq(batch[b].operations, 1, k - 1))
                IN  /\ k = batch[b].index
                    /\ batch'[b].pc = "rejected"
                    /\ batch'[b].error \in {"missing-document", "TypeError"}
                    /\ batch'[b].index = k
                    /\ ~batch'[b].foreign =>
                          before = [data |-> firestore'.data, error |-> "none"]
          /\ batch[b].pc = "rejected" => batch'[b] = batch[b]]_vars

\* set(m2) was applied, the update of the missing m1 threw, m2 is still there.
C4_Witness ==
    /\ batch["b1"].pc = "rejected" /\ batch["b1"].threwAt = 2
    /\ batch["b1"].error = "missing-document"
    /\ batch["b1"].operations[1] = SetOp(DocRef(Collection, "m2"))
    /\ \A w \in Writers : writer[w].pc = "idle"
    /\ exists(firestore, DocRef(Collection, "m2"))

(***************************************************************************)
(* C5: a tx.get throws exactly when a write was staged on the transaction  *)
(* before it, whatever document it reads; the flag is set exactly when a   *)
(* write was staged and is never reset.                                    *)
(***************************************************************************)
C5_NoReadAfterWrite ==
    /\ [](\A t \in Txs :
            /\ tx[t].lastGet.ref # Null => (tx[t].lastGet.threw <=> tx[t].lastGet.staged > 0)
            /\ tx[t].pc # "none" =>
                  (tx[t].preventReads <=> Len(batch[TxBatch(t)].operations) > 0))
    /\ [][\A t \in Txs : tx[t].preventReads => tx'[t].preventReads]_vars

\* After a write to m1 a get of m2 threw, and updateFunction goes on.
C5_Witness ==
    \E t \in Txs :
        /\ tx[t].pc = "fn"
        /\ tx[t].lastGet = [ref |-> DocRef(Collection, "m2"), threw |-> TRUE, staged |-> 1]

(***************************************************************************)
(* C6: runTransaction resolves with the value that updateFunction returned *)
(* and only when the commit of its batch has resolved: at that moment all  *)
(* staged operations have run and the store's data shows them applied in   *)
(* order.                                                                  *)
(***************************************************************************)
C6_ResolvesAfterCommit ==
    [][\A t \in Txs :
          (tx[t].pc # "resolved" /\ tx'[t].pc = "resolved") =>
              LET b == TxBatch(t)
              IN  /\ tx'[t].value = tx'[t].result
                  /\ tx'[t].result \in Results
                  /\ batch'[b].pc = "committed"
                  /\ ~batch'[b].foreign =>
                        ApplyAll(StartOf(b), batch[b].operations)
                            = [data |-> firestore'.data, error |-> "none"]]_vars

\* A transaction that staged two writes has resolved with "Y".
C6_Witness ==
    \E t \in Txs :
        /\ tx[t].pc = "resolved" /\ tx[t].value = Str("Y")
        /\ Len(batch[TxBatch(t)].operations) = 2

(***************************************************************************)
(* C7: registering an operation on a batch or on a transaction leaves the  *)
(* store as it is (data, both ledgers, no event), and the data changes     *)
(* only in a step of a running commit or of an unbatched write.            *)
(***************************************************************************)
C7_RegistrationDefers ==
    [][/\ (\E b \in Batches : Len(batch'[b].operations) > Len(batch[b].operations)) =>
              firestore' = firestore
       /\ firestore'.data # firestore.data =>
              \/ \E b \in Batches : batch[b].pc = "running"
              \/ \E w \in Writers : writer[w].pc = "waiting"]_vars

\* Both the batch and the transaction hold operations, and nothing was written.
C7_Witness ==
    /\ \A b \in Batches : batch[b].pc = "open" /\ Len(batch[b].operations) = 2
    /\ firestore.onUpdate.count = 0 /\ firestore.onChange.count = 0
    /\ firestore.changes = EmptyObject

(***************************************************************************)
(* C8: a direct suspendChangeEvents() throws exactly when events are       *)
(* already suspended, a direct resumeChangeEvents() exactly when they are  *)
(* not, and a call that throws leaves the store as it is and emits         *)
(* nothing; a successful suspend only sets the flag; a successful resume   *)
(* clears both flags and emits one 'change' event if a document was        *)
(* written during the suspension and none otherwise.                       *)
(***************************************************************************)
C8_SuspendResumeContract ==
    [][caller'.tick # caller.tick =>
          /\ caller'.threw => firestore' = firestore
          /\ caller'.call = "suspend" =>
                /\ caller'.threw <=> firestore.suspendingChangeEvents
                /\ ~caller'.threw =>
                      firestore' = [firestore EXCEPT !.suspendingChangeEvents = TRUE]
          /\ caller'.call = "resume" =>
                /\ caller'.threw <=> ~firestore.suspendingChangeEvents
                /\ ~caller'.threw =>
                      /\ ~firestore'.suspendingChangeEvents
                      /\ ~firestore'.pendingChangeEvent
                      /\ firestore'.onChange.count - firestore.onChange.count
                            = IF firestore.onUpdate.count > caller.mark THEN 1 ELSE 0
                      /\ firestore'.data = firestore.data]_vars

\* A resume that ended a suspension with two writes has emitted one event.
C8_Witness ==
    /\ caller.call = "resume" /\ ~caller.threw
    /\ caller.writes = 2 /\ caller.emitted = 1

(***************************************************************************)
(* C9 as stated: an 'update' event carries the id of the batch whose       *)
(* commit made the write, and no id (null) when the write was unbatched.   *)
(***************************************************************************)
C9_UpdateCarriesItsBatch ==
    [][/\ \A b \in Batches :
             (batch[b].pc = "running" /\ batch'[b].windowWrites > batch[b].windowWrites
                  /\ batch'[b].foreign = batch[b].foreign) =>
                 firestore'.onUpdate.batchId = batch[b].batchId
       /\ \A w \in Writers :
             (writer[w].pc = "waiting" /\ writer'[w].pc = "resolved") =>
                 firestore'.onUpdate.batchId = Null]_vars

(***************************************************************************)
(* C10 as stated: the 'change' event of an unbatched set, update or delete *)
(* (events not being suspended) carries that operation's own change and    *)
(* the data after it, and changesSinceLastEvent is empty afterwards.       *)
(***************************************************************************)
OwnChangeIn(diff, op) ==
    CASE op.kind = "set" -> getFieldValue(Obj(diff), ChangePath(op.ref)) = op.value
      [] op.kind = "delete" -> getFieldValue(Obj(diff), ChangePath(op.ref)) = FirestoreDeleted
      [] op.kind = "update" ->
            \A i \in 1..Len(op.value.v) :
                getFieldValue(Obj(diff), ChangePath(op.ref) \o op.value.v[i][1]) = op.value.v[i][2]

C10_ChangeCarriesOwnWrite ==
    [][\A w \in Writers :
          (writer[w].pc = "waiting" /\ writer'[w].pc = "resolved"
               /\ ~firestore.suspendingChangeEvents) =>
              /\ firestore'.onChange.count = firestore.onChange.count + 1
              /\ firestore'.onChange.data = firestore'.data
              /\ OwnChangeIn(firestore'.onChange.diff, writer[w].op)
              /\ firestore'.changesSinceLastEvent = EmptyObject]_vars

\* The same for set and update alone.
C10_SetAndUpdate ==
    [][\A w \in Writers :
          (writer[w].pc = "waiting" /\ writer'[w].pc = "resolved"
               /\ writer[w].op.kind # "delete"
               /\ firestore.changesSinceLastEvent = EmptyObject
               /\ ~firestore.suspendingChangeEvents) =>
              /\ firestore'.onChange.count = firestore.onChange.count + 1
              /\ firestore'.onChange.data = firestore'.data
              /\ OwnChangeIn(firestore'.onChange.diff, writer[w].op)
              /\ firestore'.changesSinceLastEvent = EmptyObject]_vars

(***************************************************************************)
(* C11: concurrent getAutoId requests for one collection return pairwise   *)
(* distinct ids, each the singular collection name followed by a positive  *)
(* integer, whatever the interleaving of the requests' steps.              *)
(***************************************************************************)
VendedId(g) == lease[g].kind = "getAutoId" /\ lease[g].outcome = "returned"

C13_AtMostOneFunc ==
    Cardinality({g \in LeaseCallers : lease[g].pc = "func"}) <= 1

(***************************************************************************)
(* C14: when runWithFirestoreMutex settles, after func returned or threw,  *)
(* the lease document does not exist, the cumulative change ledger holds   *)
(* "<deleted>" at its path, and the caller gets func's result or error.    *)
(***************************************************************************)
C14_LeaseReleased ==
    [][\A g \in LeaseCallers :
          lease[g].pc = "releasing" /\ lease'[g].pc = "done" =>
              /\ ~exists(firestore', LeaseRef)
              /\ getFieldValue(Obj(firestore'.changes), ChangePath(LeaseRef)) = FirestoreDeleted
              /\ lease'[g].outcome = (IF lease[g].kind = "throws" THEN "threw" ELSE "returned")
              /\ lease[g].kind = "returns" => lease'[g].result = FuncResult
              /\ lease[g].kind = "throws" => lease'[g].result = FuncError
              /\ lease[g].kind = "getAutoId" => lease'[g].result = Str(AutoId("message", lease[g].n))]_vars

\* A func that threw and a func that returned have both released, the
\* second one after the other caller had written its lease again.
C14_Witness ==
    /\ lease["g1"].pc = "done" /\ lease["g1"].outcome = "threw"
    /\ lease["g2"].pc = "done" /\ lease["g2"].outcome = "returned"
    /\ firestore.onUpdate.count = 4

Applies(kinds) == client.pc = "waiting" /\ client'.pc = "idle" /\ client.op.kind \in kinds
\* The caller's get() is called and resolves in this step.
Gets == client.pc = "idle" /\ client'.pc = "idle" /\ client'.calls = client.calls + 1
\* The document of the caller's operation before and after the step.
DocBefore == getDataOrDefault(firestore, client.op.ref)
DocAfter == getDataOrDefault(firestore', client.op.ref)

IsPrefix(p, q) == Len(p) <= Len(q) /\ SubSeq(q, 1, Len(p)) = p
\* The paths of the fields of a document, nested ones included.
RECURSIVE PathsOf(_, _)
PathsOf(value, path) ==
    IF ~IsObject(value) THEN {}
    ELSE UNION { {Append(path, key)} \cup PathsOf(value.v[key], Append(path, key)) :
                    key \in DOMAIN value.v }
ProbePaths == PathsOf(DocBefore, <<>>) \cup PathsOf(DocAfter, <<>>)
\* The field paths and values that a merge, mergeFields or update addresses.
AddressedEntries(op) ==
    CASE op.kind = "update" -> {op.value.v[i] : i \in 1..Len(op.value.v)}
      [] op.kind = "merge" -> flattenObject(op.value.v, <<>>)
      [] op.kind = "mergeFields" ->
            {<<op.value.v.mergeFields[i], getFieldValue(op.value.v.data, op.value.v.mergeFields[i])>> :
                i \in 1..Len(op.value.v.mergeFields)}
      [] OTHER -> {}
Addressed(op) == {e[1] : e \in AddressedEntries(op)}
\* q lies neither on nor under nor above an addressed path.
Unrelated(q, op) == \A f \in Addressed(op) : ~IsPrefix(q, f) /\ ~IsPrefix(f, q)
SameAt(old, new, q) ==
    /\ getFieldValue(old, q) = getFieldValue(new, q)
    /\ isFieldValueMissing(old, q) = isFieldValueMissing(new, q)

(***************************************************************************)
(* C15: update() on a document that does not exist rejects with the        *)
(* missing-document error and leaves data, ledgers and both event channels *)
(* as they were; get() on such a reference resolves with a snapshot whose  *)
(* exists() is false and whose data() is null.                             *)
(***************************************************************************)
C15_UpdateNeedsDocument ==
    [][ /\ Applies({"update"}) /\ ~exists(firestore, client.op.ref) =>
              client'.error = "missing-document" /\ firestore' = firestore
        /\ Gets /\ ~exists(firestore, client'.last.ref) =>
              /\ ~client'.snapshot.v.exists
              /\ client'.snapshot.v.data = Null
              /\ firestore' = firestore ]_vars

\* get() found no document and the update() that followed was rejected.
C15_Witness ==
    /\ client.pc = "idle" /\ client.last # Null /\ client.snapshot # Null
    /\ client.last.kind = "update" /\ client.error = "missing-document"
    /\ ~client.snapshot.v.exists /\ ~exists(firestore, ClientRef)

C17_PlainSetReplaces ==
    [][ Applies({"set"}) /\ exists(firestore, client.op.ref) =>
              /\ client'.error = "none"
              /\ getData(firestore', client.op.ref) = client.op.value
              /\ getFieldValue(Obj(firestore'.changes), ChangePath(client.op.ref))
                    = client.op.value ]_vars

\* {a: 1} has replaced a document that had other fields.
C17_Witness ==
    /\ client.pc = "idle" /\ client.last # Null
    /\ client.last = SetTo(ClientRef, Da) /\ client.existed
    /\ client.calls = 2 /\ firestore.onUpdate.count = 2

(***************************************************************************)
(* C18 as stated: a set with mergeFields or with merge: true leaves every  *)
(* field that is not on, under or above an addressed path as it was, and   *)
(* when it succeeds the cumulative ledger holds, at each addressed path    *)
(* that it changed, the final value of that path or "<deleted>" when the   *)
(* path is gone.                                                           *)
(***************************************************************************)
LedgerHolds(f) ==
    getFieldValue(Obj(firestore'.changes), ChangePath(client.op.ref) \o f)
      = IF isFieldValueMissing(DocAfter, f) THEN FirestoreDeleted
        ELSE getFieldValue(DocAfter, f)

C18_MergeTouchesOnlyAddressed ==
    [][ Applies({"merge", "mergeFields"}) =>
              /\ \A q \in ProbePaths :
                    Unrelated(q, client.op) => SameAt(DocBefore, DocAfter, q)
              /\ client'.error = "none" =>
                    \A f \in Addressed(client.op) :
                        ~SameAt(DocBefore, DocAfter, f) => LedgerHolds(f) ]_vars

\* What holds of every merging set: the unrelated fields stay, and the
\* ledger holds every addressed path unless the document ends up empty.
C18_Frame ==
    [][ Applies({"merge", "mergeFields"}) =>
              /\ \A q \in ProbePaths :
                    Unrelated(q, client.op) => SameAt(DocBefore, DocAfter, q)
              /\ client'.error = "none" /\ DocAfter # Obj(EmptyObject) =>
                    \A f \in Addressed(client.op) : LedgerHolds(f) ]_vars

(***************************************************************************)
(* C19 as stated: update() on an existing document sets every addressed    *)
(* path to its value and leaves the fields that are not on, under or above *)
(* an addressed path as they were.                                         *)
(***************************************************************************)
C19_UpdateSetsAddressedPaths ==
    [][ Applies({"update"}) /\ exists(firestore, client.op.ref) =>
              /\ \A e \in AddressedEntries(client.op) :
                    IF e[2] = DeleteTransform THEN isFieldValueMissing(DocAfter, e[1])
                    ELSE getFieldValue(DocAfter, e[1]) = e[2]
              /\ \A q \in ProbePaths :
                    Unrelated(q, client.op) => SameAt(DocBefore, DocAfter, q) ]_vars

\* What holds of every update(): the unrelated fields stay, and an update
\* that succeeds has set its paths.
C19_Frame ==
    [][ Applies({"update"}) /\ exists(firestore, client.op.ref) =>
              /\ client'.error = "none" =>
                    \A e \in AddressedEntries(client.op) :
                        IF e[2] = DeleteTransform THEN isFieldValueMissing(DocAfter, e[1])
                        ELSE getFieldValue(DocAfter, e[1]) = e[2]
              /\ \A q \in ProbePaths :
                    Unrelated(q, client.op) => SameAt(DocBefore, DocAfter, q) ]_vars

(***************************************************************************)
(* C20: after a field delete through a nested path has been applied, by    *)
(* update() or by a merging set, no object on that path inside the         *)
(* document is empty: every ancestor that the delete emptied is gone.      *)
(***************************************************************************)
C20_EmptiedAncestorsRemoved ==
    [][ Applies({"update", "merge"}) /\ client'.error = "none" =>
              \A e \in AddressedEntries(client.op) :
                  e[2] = DeleteTransform /\ Len(e[1]) > 1 =>
                      /\ isFieldValueMissing(DocAfter, e[1])
                      /\ \A n \in 1..(Len(e[1]) - 1) :
                            getFieldValue(DocAfter, SubSeq(e[1], 1, n)) # Obj(EmptyObject) ]_vars

\* Deleting from.name.first has left {text} of {text, from: {name: {first}}}.
C20_Witness ==
    /\ client.pc = "idle" /\ client.last # Null
    /\ client.last.kind = "update" /\ client.error = "none" /\ client.existed
    /\ client.last.value.v[1][2] = DeleteTransform
    /\ getData(firestore, ClientRef) = Obj("text" :> Str("T"))

(***************************************************************************)
(* C21: after delete() of a document, the document's id is no key of its   *)
(* collection, a collection without documents is no key of store.data,     *)
(* the cumulative ledger holds "<deleted>" at the document's path, and a   *)
(* get() that follows resolves with a snapshot whose exists() is false.    *)
(***************************************************************************)
C21_DeleteLeavesNothing ==
    [][ /\ Applies({"delete"}) =>
              LET collectionPath == client.op.ref.collectionPath
                  documentId == client.op.ref.documentId
              IN  /\ client'.error = "none"
                  /\ collectionPath \in DOMAIN firestore'.data =>
                        /\ IsObject(firestore'.data[collectionPath])
                        /\ documentId \notin DOMAIN firestore'.data[collectionPath].v
                        /\ DOMAIN firestore'.data[collectionPath].v # {}
                  /\ getFieldValue(Obj(firestore'.changes), ChangePath(client.op.ref))
                        = FirestoreDeleted
        /\ (/\ Gets /\ client.last # Null /\ client.last.kind = "delete"
            /\ client'.last.ref = client.last.ref) =>
              /\ ~client'.snapshot.v.exists
              /\ client'.snapshot.v.data = Null ]_vars

\* The only document of "messages" was deleted and then read.
C21_Witness ==
    /\ client.last # Null /\ client.snapshot # Null
    /\ client.last.kind = "get" /\ client.last.ref = ClientRef
    /\ client.calls = 2 /\ firestore.onUpdate.count = 1
    /\ ~client.snapshot.v.exists
    /\ Collection \notin DOMAIN firestore.data
    /\ getFieldValue(Obj(firestore.changes), ChangePath(ClientRef)) = FirestoreDeleted
(***************************************************************************)
(* C22: firestore.setData(newTree) replaces the whole data with newTree,   *)
(* or with the empty tree when called without one, empties the cumulative  *)
(* ledger, resets the id counters so that the next getNextId of every path *)
(* returns 1, and emits exactly one 'change' event (and no 'update').      *)
(***************************************************************************)
C22_SetDataResets ==
    [][ reset'.calls # reset.calls =>
              /\ firestore'.data = IF reset'.newData = Undefined THEN EmptyObject
                                   ELSE reset'.newData.v
              /\ firestore'.changes = EmptyObject
              /\ \A collectionPath \in {Collection, "entries", LeaseRef.collectionPath} :
                    getNextId(nextIds', collectionPath).nextId = 1
              /\ firestore'.onChange.count = firestore.onChange.count + 1
              /\ firestore'.onChange.data = firestore'.data
              /\ firestore'.onUpdate = firestore.onUpdate ]_vars

\* setData has replaced a store that had been written to and had vended ids.
C22_Witness ==
    /\ reset.calls = 1 /\ reset.newData # Undefined /\ reset.newData.v # EmptyObject
    /\ firestore.data = reset.newData.v
    /\ firestore.onUpdate.count >= 1 /\ firestore.changes = EmptyObject
    /\ vended.calls >= 1 /\ nextIds = EmptyObject

\* A builder is called in this step.
Builds == query' # query \/ collectionRef' # collectionRef

\* C23 as stated: a builder call returns a new query and leaves the queries
\* that exist, the collection reference and the query built before, with
\* the params they had: none of them gains a clause, and each of them still
\* evaluates to the result it had.
C23_BuildersKeepReceiver ==
    [][ Builds =>
            \A q \in {NewQuery, query} :
                /\ Params(collectionRef', q) = Params(collectionRef, q)
                /\ QueryData(firestore', Collection, Params(collectionRef', q))
                      = QueryData(firestore, Collection, Params(collectionRef, q)) ]_vars

(***************************************************************************)
(* Where clauses.                                                          *)
(***************************************************************************)
SupportedOperators == {"array-contains", "==", ">", ">=", "<", "<="}
\* The value that a clause looks at: the id for the document-id field path,
\* else the field of the document (the fields of the queries are top-level
\* fields), Undefined when the document lacks it.
Looked(clause, id, document) ==
    IF clause.fieldPath = DocumentIdPath THEN Str(id)
    ELSE IF clause.fieldPath.segments[1] \in DOMAIN document.v
    THEN document.v[clause.fieldPath.segments[1]]
    ELSE Undefined
\* a comes before b: both numbers, or both strings.
Before(a, b) ==
    \/ a.k = "num" /\ b.k = "num" /\ a.v < b.v
    \/ a.k = "str" /\ b.k = "str" /\ Rank(a.v) < Rank(b.v)
\* What a clause with a supported operator demands of a document.
Holds(clause, id, document) ==
    LET found == Looked(clause, id, document)
    IN  /\ found # Undefined
        /\ clause.opStr = "==" => found = clause.value
        /\ clause.opStr = ">" => Before(clause.value, found)
        /\ clause.opStr = ">=" => Before(clause.value, found) \/ found = clause.value
        /\ clause.opStr = "<" => Before(found, clause.value)
        /\ clause.opStr = "<=" => Before(found, clause.value) \/ found = clause.value
        /\ clause.opStr = "array-contains" =>
                found.k = "arr" /\ clause.value \in {found.v[i] : i \in 1..Len(found.v)}
\* The documents of the collection that are present.
PresentIds ==
    LET collection == getCollectionData(firestore, Collection)
    IN  IF Falsy(collection) THEN {}
        ELSE {id \in DOMAIN collection.v : collection.v[id] # Null}
StoredDoc(id) == getCollectionData(firestore, Collection).v[id]
Returned == answer.result.v
ReturnedIds == {Returned[j].id : j \in 1..Len(Returned)}
Supported(where) == \A i \in 1..Len(where) : where[i].opStr \in SupportedOperators

C27_DocumentIdSelected ==
    /\ answer.got
    /\ \E i \in 1..Len(collectionRef.where) : collectionRef.where[i].fieldPath = DocumentIdPath
    /\ ReturnedIds = {"m3"}

\* The where clauses with a supported operator, in their order.
SupportedOnly(where) ==
    LET IsSupported(clause) == clause.opStr \in SupportedOperators
    IN  SelectSeq(where, IsSupported)
\* What the query would return without its clauses of unsupported operators.
WithoutUnsupported ==
    QueryGet(firestore, Collection,
             [Params(collectionRef, query) EXCEPT !.where = SupportedOnly(collectionRef.where)],
             query.isCountOnly).v
HasUnsupported == ~Supported(collectionRef.where)
\* The document has the fields of all clauses with an unsupported operator.
HasUnsupportedFields(id) ==
    \A i \in 1..Len(collectionRef.where) :
        collectionRef.where[i].opStr \notin SupportedOperators =>
            Looked(collectionRef.where[i], id, StoredDoc(id)) # Undefined

\* C28 as stated: a where clause with an operator outside the supported
\* set is not enforced: the query returns what it returns without the
\* clause, for every content of the collection.
C28_UnsupportedNotEnforced ==
    answer.got /\ HasUnsupported => Returned = WithoutUnsupported

\* C28: a where clause with an operator outside the supported set is
\* accepted by the builder, and its operator and value are not enforced:
\* the query returns, in the same order, the documents that it returns
\* without the clause and that have the clause's field.
C28_UnsupportedTestsPresence ==
    answer.got /\ HasUnsupported =>
        LET Has(snapshot) == HasUnsupportedFields(snapshot.id)
        IN  Returned = SelectSeq(WithoutUnsupported, Has)

\* A query with a clause of an unsupported operator returned a document
\* that the operator would reject, and left out a document that lacks the
\* clause's field.
C28_Witness ==
    /\ answer.got
    /\ HasUnsupported
    /\ WhereClause(N, "!=", Num(1)) \in {collectionRef.where[i] : i \in 1..Len(collectionRef.where)}
    /\ \E j \in 1..Len(Returned) : Returned[j].data.v["n"] = Num(1)
    /\ Len(Returned) < Len(WithoutUnsupported)

(***************************************************************************)
(* Order clauses, cursors and limits.                                      *)
(***************************************************************************)
\* The field of a document that an order clause sorts by (a top-level
\* field), Undefined when the document lacks it.
SortField(clause, document) ==
    IF clause.fieldPath.segments[1] \in DOMAIN document.v
    THEN document.v[clause.fieldPath.segments[1]]
    ELSE Undefined
HasNoValue(value) == value = Null \/ value = Undefined
\* x comes before y under 'asc': no value before a value, else by < of the
\* numbers or of the strings.
Ascends(x, y) ==
    \/ HasNoValue(x) /\ ~HasNoValue(y)
    \/ ~HasNoValue(x) /\ ~HasNoValue(y) /\ Before(x, y)
\* Document a comes before document b under the clause.
Precedes(clause, a, b) ==
    IF clause.direction = "asc" THEN Ascends(SortField(clause, a), SortField(clause, b))
    ELSE Ascends(SortField(clause, b), SortField(clause, a))
Ties(clause, a, b) == ~Precedes(clause, a, b) /\ ~Precedes(clause, b, a)
\* a comes before b by the first clause on which they do not tie.
LexPrecedes(order, a, b) ==
    \E i \in 1..Len(order) :
        /\ \A j \in 1..(i - 1) : Ties(order[j], a, b)
        /\ Precedes(order[i], a, b)
LexTies(order, a, b) == \A i \in 1..Len(order) : Ties(order[i], a, b)
\* The place of a document in its collection.
CollectionPlace(id) == CHOOSE j \in 1..Len(QueryIds) : QueryIds[j] = id

\* C25: the result of a query with order clauses c1..cn is ordered
\* lexicographically, by c1, ties broken by c2, and so on, each clause in
\* its direction, documents whose field is null or absent before the
\* documents with a value under 'asc' and after them under 'desc';
\* documents that tie on all clauses keep their collection order.
C25_LexicographicOrder ==
    answer.got =>
        \A j, l \in 1..Len(Returned) :
            j < l =>
                \/ LexPrecedes(collectionRef.order, Returned[j].data, Returned[l].data)
                \/ /\ LexTies(collectionRef.order, Returned[j].data, Returned[l].data)
                   /\ CollectionPlace(Returned[j].id) < CollectionPlace(Returned[l].id)

\* A result of three documents or more under two clauses on different
\* fields: two neighbours tie on the first clause and the second orders
\* them against their collection order.
C25_Witness ==
    /\ answer.got
    /\ Len(collectionRef.order) = 2
    /\ collectionRef.order[1].fieldPath # collectionRef.order[2].fieldPath
    /\ Len(Returned) >= 3
    /\ \E j \in 1..(Len(Returned) - 1) :
            /\ Ties(collectionRef.order[1], Returned[j].data, Returned[j + 1].data)
            /\ Precedes(collectionRef.order[2], Returned[j].data, Returned[j + 1].data)
            /\ CollectionPlace(Returned[j].id) > CollectionPlace(Returned[j + 1].id)

\* Results with a document without a value: first under 'asc', last under
\* 'desc', and documents tying on all clauses in collection order.
C25_NoValueFirst ==
    /\ answer.got
    /\ Len(Returned) >= 3
    /\ collectionRef.order = <<OrderClause(N, "asc")>>
    /\ HasNoValue(SortField(collectionRef.order[1], Returned[1].data))
C25_NoValueLast ==
    /\ answer.got
    /\ Len(Returned) >= 3
    /\ collectionRef.order = <<OrderClause(N, "desc")>>
    /\ HasNoValue(SortField(collectionRef.order[1], Returned[Len(Returned)].data))
C25_TiesKeepPlace ==
    /\ answer.got
    /\ collectionRef.order # <<>>
    /\ \E j \in 1..(Len(Returned) - 1) :
            LexTies(collectionRef.order, Returned[j].data, Returned[j + 1].data)

\* x comes before y in the direction.
ComesBefore(direction, x, y) == IF direction = "asc" THEN Ascends(x, y) ELSE Ascends(y, x)
\* The bound that the cursor supplies for order clause i, if it does.
Supplies(cursor, i) == cursor # Undefined /\ i <= Len(cursor.v)
\* The document satisfies the bound of the named cursor on the clause.
Satisfies(name, clause, document, bound) ==
    LET value == SortField(clause, document)
    IN  CASE name = "startAt" -> ~ComesBefore(clause.direction, value, bound)
          [] name = "startAfter" -> ComesBefore(clause.direction, bound, value)
          [] name = "endAt" -> ~ComesBefore(clause.direction, bound, value)
          [] name = "endBefore" -> ComesBefore(clause.direction, value, bound)
\* The document satisfies all bounds that the query's cursors supply.
WithinBounds(document) ==
    \A name \in CursorNames, i \in 1..Len(collectionRef.order) :
        Supplies(query[name], i) =>
            Satisfies(name, collectionRef.order[i], document, query[name].v[i])
Unlimited == query.limit = Undefined /\ query.limitToLast = Undefined
\* The bounds that the cursors supply for order clause i.
BoundsAt(i) == {name \in CursorNames : Supplies(query[name], i)}

\* C24 as stated: every returned document satisfies every bound that a
\* cursor supplies for an order clause (startAt: >=, startAfter: >, endAt:
\* <=, endBefore: <, in the clause's direction), and every document of the
\* collection that satisfies all supplied bounds is returned; also with a
\* start and an end bound on one query and with the bounds 0 and "".
C24_CursorsBound ==
    answer.got =>
        /\ \A j \in 1..Len(Returned) : WithinBounds(Returned[j].data)
        /\ Unlimited => ReturnedIds = {id \in PresentIds : WithinBounds(StoredDoc(id))}

\* The bounds are enforced where each order clause has at most one bound
\* and no bound is 0 or "".
C24_SingleTruthyBound ==
    answer.got
        /\ (\A i \in 1..Len(collectionRef.order) : Cardinality(BoundsAt(i)) <= 1)
        /\ (\A name \in CursorNames, i \in 1..Len(collectionRef.order) :
                Supplies(query[name], i) => query[name].v[i] \notin {Num(0), Str("")})
        => /\ \A j \in 1..Len(Returned) : WithinBounds(Returned[j].data)
           /\ Unlimited => ReturnedIds = {id \in PresentIds : WithinBounds(StoredDoc(id))}

\* A bound that was enforced: a document outside it was left out.
C24_BoundEnforced ==
    /\ answer.got
    /\ Unlimited
    /\ \E i \in 1..Len(collectionRef.order) : Cardinality(BoundsAt(i)) = 1
    /\ ReturnedIds # {}
    /\ ReturnedIds # PresentIds

\* The filtered, ordered and cursor-bounded result R: what the query
\* returns without its limits.
Unsliced ==
    QueryGet(firestore, Collection,
             [Params(collectionRef, query) EXCEPT !.limit = Undefined, !.limitToLast = Undefined],
             FALSE).v
Smaller(a, b) == IF a < b THEN a ELSE b
FirstOf(R, num) == SubSeq(R, 1, Smaller(num, Len(R)))
LastOf(R, num) == SubSeq(R, Len(R) - Smaller(num, Len(R)) + 1, Len(R))

\* C26 as stated: for every N >= 0, limit(N) returns the first min(N, |R|)
\* documents of R and limitToLast(N) the last min(N, |R|) documents of R;
\* with both set, one of them is applied.
C26_LimitsSlice ==
    answer.got =>
        /\ query.limit # Undefined /\ query.limitToLast = Undefined =>
                Returned = FirstOf(Unsliced, query.limit.v)
        /\ query.limitToLast # Undefined /\ query.limit = Undefined =>
                Returned = LastOf(Unsliced, query.limitToLast.v)
        /\ query.limit # Undefined /\ query.limitToLast # Undefined =>
                \/ Returned = FirstOf(Unsliced, query.limit.v)
                \/ Returned = LastOf(Unsliced, query.limitToLast.v)

\* The limits of N >= 1 slice: limit(N) gives the first min(N, |R|)
\* documents, limitToLast(N) without a limit of N >= 1 the last min(N, |R|).
C26_PositiveLimitsSlice ==
    answer.got =>
        /\ query.limit # Undefined /\ query.limit.v >= 1 =>
                Returned = FirstOf(Unsliced, query.limit.v)
        /\ query.limitToLast # Undefined /\ query.limitToLast.v >= 1
              /\ (query.limit = Undefined \/ query.limit.v = 0) =>
                Returned = LastOf(Unsliced, query.limitToLast.v)

\* A limit and a limitToLast that cut a longer result.
C26_LimitCuts ==
    /\ answer.got
    /\ query.limit = Num(2) /\ Len(Unsliced) > 2 /\ Len(Returned) = 2
C26_LimitToLastCuts ==
    /\ answer.got
    /\ query.limit = Undefined /\ query.limitToLast = Num(2)
    /\ Len(Unsliced) > 2 /\ Len(Returned) = 2
    /\ Returned[2] = Unsliced[Len(Unsliced)]

(***************************************************************************)
(* Subscriptions.                                                          *)
(***************************************************************************)
\* A step in which onSnapshot is called and returns.
Subscribes == ~listener.subscribed /\ listener'.subscribed
\* The collection is the pending-forever marker.
Pending == Prop(firestore.data, Collection) = LoadsForever
\* The ids of the present documents for which all where clauses hold, in
\* collection order.
Matching ==
    LET Matches(id) ==
            /\ id \in PresentIds
            /\ \A i \in 1..Len(collectionRef.where) :
                    Holds(collectionRef.where[i], id, StoredDoc(id))
    IN  SelectSeq(QueryIds, Matches)

\* C29: onSnapshot on a document reference or on a query whose data is not
\* the pending-forever marker calls the handler exactly once before it
\* returns, with the current state: a snapshot that does not exist for an
\* absent document, an empty result for a query that matches nothing.
C29_InitialDelivery ==
    [][ Subscribes /\ ~Pending =>
            /\ listener'.calls = 1
            /\ IF listener'.target = Str("query")
               THEN /\ listener'.snapshot.k = "QuerySnapshot"
                    /\ Len(listener'.snapshot.v) = Len(Matching)
                    /\ \A j \in 1..Len(Matching) :
                            /\ listener'.snapshot.v[j].id = Matching[j]
                            /\ listener'.snapshot.v[j].data = StoredDoc(Matching[j])
               ELSE LET id == listener'.target.documentId
                    IN  /\ listener'.snapshot.v.id = id
                        /\ listener'.snapshot.v.exists = (id \in PresentIds)
                        /\ listener'.snapshot.v.data =
                              (IF id \in PresentIds THEN StoredDoc(id) ELSE Null) ]_vars

\* onSnapshot returned after one call of the handler with an empty result,
\* for a query on a collection that holds documents.
C29_Witness ==
    /\ listener.subscribed
    /\ listener.target = Str("query")
    /\ listener.calls = 1
    /\ listener.snapshot.v = <<>>
    /\ ~Pending
    /\ PresentIds # {}

\* onSnapshot returned after one call of the handler with a snapshot that
\* does not exist, for a document that was never written and for one that
\* the store holds null for; and with a document and with a result.
C29_AbsentDocument ==
    /\ listener.subscribed
    /\ listener.target = DocRef(Collection, "m5")
    /\ listener.calls = 1
    /\ ~listener.snapshot.v.exists
C29_NullDocument ==
    /\ listener.subscribed
    /\ listener.target = DocRef(Collection, "m2")
    /\ listener.calls = 1
    /\ ~listener.snapshot.v.exists
C29_Delivered ==
    /\ listener.subscribed
    /\ listener.calls = 1
    /\ \/ listener.target # Str("query") /\ listener.snapshot.v.exists
       \/ listener.target = Str("query") /\ Len(listener.snapshot.v) = 2

(***************************************************************************)
(* The LoadsForever marker.                                                *)
(***************************************************************************)
\* The data behind the reference is the marker: the whole store, the
\* collection, or the document of a document reference.
BehindIsMarker(target) ==
    \/ firestore.data = LoadsForever
    \/ Prop(firestore.data, Collection) = LoadsForever
    \/ /\ target # Str("query")
       /\ Prop(firestore.data, Collection).k = "obj"
       /\ Prop(Prop(firestore.data, Collection).v, target.documentId) = LoadsForever
\* The collection, or the document of a document reference, is absent.
BehindIsAbsent(target) ==
    /\ ~BehindIsMarker(target)
    /\ \/ Prop(firestore.data, Collection) = Undefined
       \/ /\ target # Str("query")
          /\ Prop(Prop(firestore.data, Collection).v, target.documentId) = Undefined

\* C31: while the data behind a reference is the LoadsForever marker (the
\* whole store, a collection or a document), get() on the reference neither
\* resolves nor rejects and onSnapshot never calls the handler; on an absent
\* collection or document get() resolves, with an empty result or a
\* snapshot that does not exist, and the handler is called.
C31_MarkerNeverResolves ==
    /\ answer # NoAnswer =>
            /\ answer.got = ~BehindIsMarker(answer.target)
            /\ ~answer.got => answer.result = Awaiting
            /\ BehindIsAbsent(answer.target) =>
                    IF answer.target = Str("query") THEN answer.result.v = <<>>
                    ELSE ~answer.result.v.exists /\ answer.result.v.data = Null
    /\ listener.subscribed =>
            /\ BehindIsMarker(listener.target) => listener.calls = 0
            /\ ~BehindIsMarker(listener.target) => listener.calls >= 1

\* get() awaits and the handler was not called although 'change' was
\* emitted, on a store that is the marker only in one collection or in one
\* document.
C31_Witness ==
    /\ answer # NoAnswer /\ ~answer.got
    /\ listener.subscribed /\ listener.calls = 0
    /\ firestore.onChange.count >= 1

\* The same on a store that is the marker as a whole, and the resolved
\* answers on absent data.
C31_WholeStorePending ==
    /\ firestore.data = LoadsForever
    /\ answer # NoAnswer /\ ~answer.got
    /\ listener.subscribed /\ listener.calls = 0
C31_AbsentResolves ==
    /\ answer # NoAnswer /\ answer.got /\ BehindIsAbsent(answer.target)
    /\ listener.subscribed /\ listener.calls >= 1 /\ BehindIsAbsent(listener.target)

(***************************************************************************)
(* Array union.                                                            *)
(***************************************************************************)
\* An array union is applied in this step, to the field "tags".
AppliesUnion ==
    /\ client.pc = "waiting" /\ client'.pc = "idle" /\ client'.error = "none"
    /\ \E entry \in AddressedEntries(client.op) : entry[2].k = "arrayUnion"
UnionOperand == (CHOOSE entry \in AddressedEntries(client.op) : entry[2].k = "arrayUnion")[2].v
\* The array that the field holds, empty when the field is absent or null.
TagsOf(document) ==
    IF "tags" \in DOMAIN document.v /\ document.v["tags"].k = "arr"
    THEN document.v["tags"].v ELSE <<>>
\* The elements of a sequence, and a sequence without repeated elements.
Elements(seq) == {seq[i] : i \in 1..Len(seq)}
NoRepeats(seq) == \A i, j \in 1..Len(seq) : seq[i] = seq[j] => i = j
\* What a union has to add: the elements of the operand that the array
\* does not hold, each once, in the order of their first occurrence.
RECURSIVE Missing(_, _)
Missing(held, operand) ==
    IF operand = <<>> THEN <<>>
    ELSE IF Head(operand) \in held THEN Missing(held, Tail(operand))
    ELSE <<Head(operand)>> \o Missing(held \cup {Head(operand)}, Tail(operand))

\* C32 as stated: an array union yields the existing array followed by the
\* elements of the operand that are not yet present, in the existing
\* order; no element that the array holds is added again, and an absent
\* field counts as the empty array.
C32_UnionAddsMissing ==
    [][ AppliesUnion =>
            TagsOf(DocAfter) = TagsOf(DocBefore) \o Missing(Elements(TagsOf(DocBefore)), UnionOperand)
      ]_vars

\* What holds of the union: the existing array is kept in front, in its
\* order, an absent or null field counting as empty, and every element of
\* the operand is in the result.
C32_UnionKeepsAndAdds ==
    [][ AppliesUnion =>
            /\ IsPrefix(TagsOf(DocBefore), TagsOf(DocAfter))
            /\ Elements(TagsOf(DocAfter)) = Elements(TagsOf(DocBefore)) \cup Elements(UnionOperand)
      ]_vars

\* A union has put an element into the array a second time.
C32_Repeated ==
    /\ client.pc = "idle" /\ client.last # Null /\ client.error = "none"
    /\ ~NoRepeats(TagsOf(getDataOrDefault(firestore, ClientRef)))

(***************************************************************************)
(* Evaluation of queries.                                                  *)
(***************************************************************************)
\* The query built last is evaluated in this step.
Evaluates == answer'.count = answer.count + 1

C33_CountAgain ==
    answer # NoAnswer /\ answer.again /\ answer.result.k = "count" /\ answer.result.v >= 1
C33_PayloadsAgain ==
    answer # NoAnswer /\ answer.again /\ answer.result.k = "docs" /\ Len(answer.result.v) >= 1

(***************************************************************************)
(* Suspended change events.                                                *)
(***************************************************************************)
\* Events are suspended before and after the step: the step lies between
\* a successful suspendChangeEvents() and the matching resumeChangeEvents().
StaysSuspended == firestore.suspendingChangeEvents /\ firestore'.suspendingChangeEvents

\* C34 as stated: between a successful suspendChangeEvents() and the
\* matching resumeChangeEvents() no 'change' event is emitted, whatever
\* runs in between: writes of the committing batch, unbatched writes,
\* setData.
C34_NoChangeWhileSuspended ==
    [][ StaysSuspended => firestore'.onChange.count = firestore.onChange.count ]_vars

\* What holds: the document writes made while events are suspended, by the
\* committing batch or by an unbatched caller, emit no 'change' event and
\* leave one pending for the resume.
C34_WritesAreDeferred ==
    [][ StaysSuspended /\ reset' = reset =>
            /\ firestore'.onChange.count = firestore.onChange.count
            /\ firestore'.onUpdate.count # firestore.onUpdate.count =>
                    firestore'.pendingChangeEvent ]_vars

(***************************************************************************)
(* C35: waiting for the lease.                                             *)
(***************************************************************************)
\* Caller g waits in waitForFirestore for the lease to be deleted.
Blocked(g) == lease[g].pc = "blocked"

\* Caller g holds the lease: func is running or has settled.
Acquired(g) == lease[g].pc \in {"func", "releasing", "done"}

\* The lease document is absent.
LeaseDeleted == getData(firestore, LeaseRef) = Null

\* C35: under fair scheduling a caller of runWithFirestoreMutex that waits
\* for the lease while the lease document is absent eventually acquires the
\* lease and runs its func.
C35_WaiterAcquires ==
    \A g \in LeaseCallers : (Blocked(g) /\ LeaseDeleted) ~> Acquired(g)

\* A blocked caller has no armed timeout: nothing resumes it.
C35_BlockedWithoutTimer ==
    \A g \in LeaseCallers : Blocked(g) => ~lease[g].timer

\* A caller is blocked after the holder has released the lease.
C35_BlockedAfterRelease ==
    \E g, h \in LeaseCallers :
        Blocked(g) /\ lease[h].pc = "done" /\ LeaseDeleted

(***************************************************************************)
(* C36: iterateAllSnapshots.                                               *)
(***************************************************************************)
\* The ids of the documents that match the query, in query order.
AllMatching ==
    LET all == QueryData(firestore, Collection, Params(collectionRef, query)).v
    IN  [j \in 1..Len(all) |-> all[j].id]

\* C36: when iterateAllSnapshots(query) has returned, it has yielded every
\* document matching the query exactly once, in query order.
C36_YieldsAllOnce == iterator.pc = "done" => iterator.yielded = AllMatching

\* Up to the first page the documents are yielded in query order, and a
\* result that is shorter than the first page is yielded whole.
C36_FirstPage ==
    /\ iterator.pages = 1 => iterator.yielded = SubSeq(AllMatching, 1, iterator.index)
    /\ iterator.pc = "done" /\ Len(AllMatching) < FirstPageSize
            => iterator.yielded = AllMatching

\* The page size starts at 10, doubles per page and stays within 100.
RECURSIVE PageSizeOf(_)
PageSizeOf(page) ==
    IF page = 1 THEN FirstPageSize
    ELSE IF PageSizeOf(page - 1) * 2 < MAX_PAGE_SIZE THEN PageSizeOf(page - 1) * 2
    ELSE MAX_PAGE_SIZE
C36_PageSizes ==
    iterator.pc # "none" =>
        /\ iterator.pageSize <= MAX_PAGE_SIZE
        /\ iterator.pageSize =
                PageSizeOf(IF iterator.pc = "fetch" THEN iterator.pages + 1 ELSE iterator.pages)

\* On the collection reference the second page starts over: the documents
\* of the first page are yielded again.
C36_YieldedTwice ==
    /\ iterator.pc = "done"
    /\ collectionRef.order = <<>>
    /\ Len(iterator.yielded) > Len(AllMatching)

\* On an ordered query the second page is empty: the documents behind the
\* first page are never yielded.
C36_NeverYielded ==
    /\ iterator.pc = "done"
    /\ collectionRef.order # <<>>
    /\ Len(iterator.yielded) < Len(AllMatching)

(***************************************************************************)
(* C37: update() of a document that is absent when the update is applied.  *)
(***************************************************************************)
\* The update() of writer w is applied in this step, to a store that does
\* not hold the document.
AppliesUpdateToAbsent(w) ==
    /\ writer[w].pc = "waiting"
    /\ writer'[w].pc # "waiting"
    /\ writer[w].op.kind = "update"
    /\ ~exists(firestore, writer[w].op.ref)

\* C37: an update() that is applied while the document does not exist fails
\* with the missing-document error and leaves the document absent.
C37_UpdateFailsAsMissing ==
    [][\A w \in BusWriters :
            AppliesUpdateToAbsent(w) =>
                /\ writer'[w].error = "missing-document"
                /\ ~exists(firestore', writer[w].op.ref)]_vars

\* Such an update() rejects and leaves the document absent.
C37_UpdateNeverCreates ==
    [][\A w \in BusWriters :
            AppliesUpdateToAbsent(w) =>
                /\ writer'[w].pc = "rejected"
                /\ ~exists(firestore', writer[w].op.ref)]_vars

\* An update() was called on a document that existed and has rejected with
\* another error than the missing-document error.
C37_DeletedInBetween ==
    \E w \in BusWriters :
        /\ writer[w].pc = "rejected"
        /\ writer[w].op.kind = "update"
        /\ ~writer[w].missing
        /\ writer[w].error = "TypeError"

(***************************************************************************)
(* C38: two transactions that increment the same counter.                  *)
(***************************************************************************)
BothResolved == \A t \in CounterTxs : tx[t].pc = "resolved"
StoredCounter == getData(firestore, CounterRef).v["counter"].v
ReadCounter(t) == tx[t].read.v["counter"].v
\* The counter before the transactions: the smaller of the two values read.
CounterBefore ==
    IF ReadCounter("t1") < ReadCounter("t2") THEN ReadCounter("t1") ELSE ReadCounter("t2")

\* C38: when two concurrent transactions that read a counter and write it
\* back incremented have both resolved, the stored counter is two more than
\* before: neither has committed a write based on a stale read.
C38_Serializable == BothResolved => StoredCounter = CounterBefore + 2

\* Each transaction that resolved has written its own read plus one, and
\* the commits ran one after the other.
C38_WritesOwnRead ==
    BothResolved =>
        /\ \E t \in CounterTxs : StoredCounter = ReadCounter(t) + 1
        /\ \A t \in CounterTxs : ~batch[TxBatch(t)].foreign

\* Both transactions read the same value and both resolved: one increment
\* is lost.
C38_LostUpdate ==
    /\ BothResolved
    /\ ReadCounter("t1") = ReadCounter("t2")
    /\ StoredCounter = CounterBefore + 1

(***************************************************************************)
(* C39: an updateFunction that throws.                                     *)
(***************************************************************************)
FunctionErrors == {"read-after-write", "thrown"}
\* updateFunction of transaction t has thrown.
HasThrown(t) == tx[t].error \in FunctionErrors

\* C39: when the function passed to runTransaction throws, runTransaction
\* rejects with that error in the same step, the step changes nothing of
\* the store (no write, no event, the suspension as it was), and the batch
\* of the transaction is never committed.
C39_ThrowPreventsCommit ==
    /\ [](\A t \in Txs :
            HasThrown(t) =>
                /\ tx[t].pc = "rejected"
                /\ batch[TxBatch(t)].pc = "open"
                /\ batch[TxBatch(t)].index = 0
                /\ batch[TxBatch(t)].emitted = 0)
    /\ [][\A t \in Txs :
            (~HasThrown(t) /\ HasThrown(t)') =>
                /\ firestore' = firestore
                /\ currentlyExecutingBatchId' = currentlyExecutingBatchId
                /\ batchMutex' = batchMutex]_vars

\* A transaction with a staged write has rejected through a get(), and the
\* store does not hold that write.
C39_Witness ==
    \E t \in Txs :
        /\ tx[t].error = "read-after-write"
        /\ Len(batch[TxBatch(t)].operations) > 0
        /\ firestore.onUpdate.count = 0
        /\ ~firestore.suspendingChangeEvents

\* A transaction with staged writes has rejected with the error that its
\* function threw, while the commit of another batch was running.
C39_ThrownDuringCommit ==
    \E t \in Txs :
        /\ tx[t].error = "thrown"
        /\ Len(batch[TxBatch(t)].operations) > 0
        /\ firestore.suspendingChangeEvents

(***************************************************************************)
(* C40: a document of a subcollection.                                     *)
(***************************************************************************)
\* The ids of the documents that a query of the whole collection returns.
IdsOf(collectionPath) ==
    LET all == QueryData(firestore, collectionPath, Params(NoParams, NewQuery)).v
    IN  {all[j].id : j \in 1..Len(all)}

\* get() is called on the subcollection's document right after a set() on
\* it has resolved.
GetsSubAfterSet ==
    /\ Gets /\ client.last # Null
    /\ client.last.kind = "set" /\ client.error = "none"
    /\ client.last.ref = SubRef /\ client'.last.ref = SubRef

\* C40: a document set through a subcollection reference is read back by
\* get() on that reference with the data that was set, is among the results
\* of a query of the subcollection and is no document of the parent
\* collection.
C40_SubcollectionRoundTrip ==
    [][ GetsSubAfterSet =>
            /\ client'.snapshot.v.exists
            /\ client'.snapshot.v.data = client.last.value
            /\ SubRef.documentId \in IdsOf(SubRef.collectionPath)
            /\ IdsOf(Collection) \subseteq Docs ]_vars

\* Where the document is: in the parent collection, under the rest of its
\* path as the id; the store holds no collection at the subcollection's path.
C40_StoredInParent ==
    [][ GetsSubAfterSet =>
            /\ ~client'.snapshot.v.exists
            /\ getCollectionData(firestore, SubRef.collectionPath) = Undefined
            /\ getData(firestore, DocRef(Collection, "m1/replies/r1")) = client.last.value
      ]_vars

\* The get() that followed the set() found no document, and a query of the
\* parent collection returns the document.
C40_ReadBackMissing ==
    /\ client.last # Null /\ client.snapshot # Null
    /\ client.last = [kind |-> "get", ref |-> SubRef, value |-> Null]
    /\ ~client.snapshot.v.exists
    /\ "m1/replies/r1" \in IdsOf(Collection)

============================================================================
